------------------------------ MODULE Spec2Model ------------------------------
(***************************************************************************)
(* The cache pipeline of the proxy engine: QueryCache and WriteCache       *)
(* (pkg/proxy/engines/cache.go) over a store that is either a memory store *)
(* (documents held by reference) or a byte store (documents held as a      *)
(* flag byte followed by a serialized, optionally compressed, payload).    *)
(***************************************************************************)
EXTENDS Integers, Sequences, FiniteSets, TLC

\* ---------------------------------------------------------------- bounds
\* The content length of the documents whose length is known.
KnownLength == 2
\* The longest suffix range ("last N bytes") a caller may ask for.
MaxSuffix == 1
\* The most ranges one lookup asks for.
MaxWant == 2

\* Byte positions a wanted range may name: one past the known length, so
\* that a wanted range can reach past the content.
MaxPos == KnownLength

Keys == {"k1"}
CacheTypes == {"memory", "filesystem"}

Max(a, b) == IF a >= b THEN a ELSE b
Min(a, b) == IF a <= b THEN a ELSE b

\* The nil pointer / nil interface value.
Nil == [nil |-> TRUE]
\* The nil error.
NoErr == "nil"

\* ----------------------------------------------------------- range algebra
Rng(s, e) == [Start |-> s, End |-> e]

\* A suffix range {-1, N}: the last N bytes.
IsSuffix(r) == r.Start < 0

\* r sorts before q: by Start ascending, then by End.
RangeLess(r, q) == r.Start < q.Start \/ (r.Start = q.Start /\ r.End < q.End)

RECURSIVE InsertRange(_, _)
InsertRange(r, s) ==
    IF s = <<>> THEN <<r>>
    ELSE IF RangeLess(r, Head(s)) THEN <<r>> \o s
    ELSE <<Head(s)>> \o InsertRange(r, Tail(s))

RECURSIVE SortRanges(_)
SortRanges(rs) ==
    IF rs = <<>> THEN <<>> ELSE InsertRange(Head(rs), SortRanges(Tail(rs)))

\* One pass over a sorted sequence, coalescing a range into its predecessor
\* when the two overlap or touch; suffix ranges coalesce among themselves.
RECURSIVE MergeSorted(_, _)
MergeSorted(acc, rs) ==
    IF rs = <<>> THEN acc
    ELSE LET r == Head(rs) IN
         IF acc = <<>> THEN MergeSorted(<<r>>, Tail(rs))
         ELSE LET l == acc[Len(acc)] IN
              IF IsSuffix(l) = IsSuffix(r)
                 /\ (IsSuffix(r) \/ r.Start <= l.End + 1)
              THEN MergeSorted([acc EXCEPT ![Len(acc)] = Rng(l.Start, Max(l.End, r.End))],
                               Tail(rs))
              ELSE MergeSorted(acc \o <<r>>, Tail(rs))

\* Ranges that hold no byte (End < Start, not a suffix range) are dropped.
DropEmpty(rs) == SelectSeq(rs, LAMBDA r : IsSuffix(r) \/ r.Start <= r.End)

Normalize(rs) == MergeSorted(<<>>, SortRanges(DropEmpty(rs)))

\* Equality of range sets: sequence equality after normalization.
RangesEqual(a, b) == Normalize(a) = Normalize(b)

\* A wanted range against the content length: a suffix range becomes the
\* concrete last bytes, a range reaching past the content is clamped.  With
\* the length unknown (negative) the range stays as it is.
ResolveRange(r, cl) ==
    IF cl < 0 THEN r
    ELSE IF IsSuffix(r) THEN Rng(Max(cl - r.End, 0), cl - 1)
    ELSE Rng(r.Start, Min(r.End, cl - 1))

ResolveRanges(rs, cl) == [i \in 1..Len(rs) |-> ResolveRange(rs[i], cl)]

\* The bytes of the concrete ranges of rs.
BytesOf(rs) ==
    UNION {rs[i].Start..rs[i].End : i \in {j \in 1..Len(rs) : ~IsSuffix(rs[j])}}

\* The part of the wanted range r that the stored ranges do not cover, left
\* to right; a suffix range that could not be resolved is kept whole.
RECURSIVE SubtractFrom(_, _, _)
SubtractFrom(pos, last, have) ==
    IF pos > last THEN <<>>
    ELSE IF pos \in BytesOf(have) THEN SubtractFrom(pos + 1, last, have)
    ELSE LET stop == CHOOSE e \in pos..last :
                        /\ \A b \in pos..e : b \notin BytesOf(have)
                        /\ (e = last \/ (e + 1) \in BytesOf(have))
         IN <<Rng(pos, stop)>> \o SubtractFrom(stop + 1, last, have)

RECURSIVE DeltaOver(_, _)
DeltaOver(want, have) ==
    IF want = <<>> THEN <<>>
    ELSE LET r == Head(want) IN
         (IF IsSuffix(r) THEN <<r>> ELSE SubtractFrom(r.Start, r.End, have))
         \o DeltaOver(Tail(want), have)

\* rs.CalculateDelta(haves, fullContentLength)
CalculateDelta(want, have, cl) ==
    Normalize(DeltaOver(Normalize(ResolveRanges(want, cl)), Normalize(have)))


\* ------------------------------------------------------------- documents
HeaderDate == "Date"
HeaderTransferEncoding == "Transfer-Encoding"
HeaderContentRange == "Content-Range"
HeaderTricksterResult == "X-Trickster-Result"
HeaderContentEncoding == "Content-Encoding"
HeaderContentType == "Content-Type"
ScrubbedHeaders ==
    {HeaderDate, HeaderTransferEncoding, HeaderContentRange, HeaderTricksterResult}

NoHeaders == [n \in {} |-> ""]

\* http.Header.Del
HeaderDel(h, name) == [n \in (DOMAIN h) \ {name} |-> h[n]]
\* http.Header.Get: "" for a header that is not there
HeaderGet(h, name) == IF name \in DOMAIN h THEN h[name] ELSE ""

\* d := &HTTPDocument{}
EmptyDoc ==
    [StatusCode |-> 0, Headers |-> NoHeaders, Body |-> <<>>,
     ContentLength |-> 0, ContentType |-> "", CachingPolicy |-> Nil,
     Ranges |-> <<>>, RangeParts |-> <<>>,
     isFulfillment |-> FALSE, isLoaded |-> FALSE, rangePartsLoaded |-> FALSE]

\* The fields of a document that are serialized.
PersistedFields ==
    {"StatusCode", "Headers", "Body", "ContentLength", "ContentType",
     "CachingPolicy", "Ranges", "RangeParts"}

\* The content of the bytes first..last of the object: byte i holds i.
ContentOf(r) == [i \in 1..(r.End - r.Start + 1) |-> r.Start + i - 1]
PartsOf(rs) == [i \in 1..Len(rs) |-> [Range |-> rs[i], Content |-> ContentOf(rs[i])]]

\* The normalized range sets within an object of cl bytes.
RECURSIVE RunsFrom(_, _, _)
RunsFrom(pos, cl, S) ==
    IF pos >= cl THEN <<>>
    ELSE IF pos \notin S THEN RunsFrom(pos + 1, cl, S)
    ELSE LET stop == CHOOSE e \in pos..(cl - 1) :
                        /\ \A b \in pos..e : b \in S
                        /\ (e = cl - 1 \/ (e + 1) \notin S)
         IN <<Rng(pos, stop)>> \o RunsFrom(stop + 1, cl, S)

StoredRangeSets == {RunsFrom(0, KnownLength, S) : S \in (SUBSET (0..(KnownLength - 1))) \ {{}}}

\* A response cached whole.
FullDoc(h, ct, cp) ==
    [EmptyDoc EXCEPT !.StatusCode = 200, !.Headers = h,
                     !.Body = ContentOf(Rng(0, KnownLength - 1)),
                     !.ContentLength = KnownLength, !.ContentType = ct,
                     !.CachingPolicy = cp, !.isLoaded = TRUE]

\* A 206 response cached as the ranges rs of an object of cl bytes.
RangeDoc(h, ct, cp, rs, cl) ==
    [EmptyDoc EXCEPT !.StatusCode = 206, !.Headers = h,
                     !.ContentLength = cl, !.ContentType = ct,
                     !.CachingPolicy = cp, !.Ranges = rs,
                     !.RangeParts = PartsOf(rs), !.rangePartsLoaded = TRUE]

Policy(nt, cc) == [NoTransform |-> nt, IsClientConditional |-> cc]

\* The documents the response handling path hands to WriteCache.
InputDocs ==
    {FullDoc((HeaderDate :> "now") @@ (HeaderTransferEncoding :> "chunked")
               @@ (HeaderTricksterResult :> "engine=ObjectProxyCache"),
             "text/plain; charset=utf-8", Nil),
     FullDoc((HeaderContentEncoding :> "gzip") @@ (HeaderDate :> "now"),
             "text/plain; charset=utf-8", Nil),
     FullDoc((HeaderDate :> "now"), "text/plain; charset=utf-8", Policy(TRUE, FALSE)),
     FullDoc((HeaderDate :> "now"), "text/plain; charset", Nil)}
    \cup {RangeDoc((HeaderContentRange :> "bytes") @@ (HeaderDate :> "now")
                     @@ (HeaderContentEncoding :> "identity"),
                   "text/plain; charset=utf-8", Policy(FALSE, TRUE), rs, KnownLength)
            : rs \in StoredRangeSets}
    \cup {RangeDoc((HeaderContentRange :> "bytes"), "image/png", Nil,
                   <<Rng(0, 0)>>, -1)}

\* ------------------------------------------------------------------ codec
\* One byte of a blob.
Byte(n) == [b |-> n]
\* One key/value entry of the binary map encoding.
Entry(k, v) == [k |-> k, v |-> v]
MapHeader(n) == [maphdr |-> n]

\* d.MarshalMsg(nil): a map header and one entry per persisted field.
MarshalMsg(d) ==
    [bytes |-> <<MapHeader(8),
                 Entry("status_code", d.StatusCode),
                 Entry("headers", d.Headers),
                 Entry("body", d.Body),
                 Entry("content_length", d.ContentLength),
                 Entry("content_type", d.ContentType),
                 Entry("caching_policy", d.CachingPolicy),
                 Entry("ranges", d.Ranges),
                 Entry("range_parts", d.RangeParts)>>,
     err |-> NoErr]

\* The field an entry's key names; unknown keys are skipped.
SetField(d, e) ==
    CASE e.k = "status_code" -> [d EXCEPT !.StatusCode = e.v]
      [] e.k = "headers" -> [d EXCEPT !.Headers = e.v]
      [] e.k = "body" -> [d EXCEPT !.Body = e.v]
      [] e.k = "content_length" -> [d EXCEPT !.ContentLength = e.v]
      [] e.k = "content_type" -> [d EXCEPT !.ContentType = e.v]
      [] e.k = "caching_policy" -> [d EXCEPT !.CachingPolicy = e.v]
      [] e.k = "ranges" -> [d EXCEPT !.Ranges = e.v]
      [] e.k = "range_parts" -> [d EXCEPT !.RangeParts = e.v]
      [] OTHER -> d

RECURSIVE DecodeEntries(_, _, _, _)
DecodeEntries(d, bts, i, n) ==
    IF n = 0 THEN [doc |-> d, err |-> NoErr]
    ELSE IF i > Len(bts) THEN [doc |-> d, err |-> "msgp: too few bytes left to read object"]
    ELSE IF "k" \notin DOMAIN bts[i] THEN [doc |-> d, err |-> "msgp: attempted to decode a non-string map key"]
    ELSE DecodeEntries(SetField(d, bts[i]), bts, i + 1, n - 1)

\* A range part holds as many bytes as its range declares.
PartFits(p) == Len(p.Content) = p.Range.End - p.Range.Start + 1

\* d.UnmarshalMsg(bts) into the document d; a range part whose content does
\* not fit its range is fatal; on success the transient flags are zero and
\* the range parts are dropped when the body is authoritative.
UnmarshalMsg(d, bts) ==
    IF bts = <<>> THEN [doc |-> d, err |-> "msgp: too few bytes left to read object"]
    ELSE IF "maphdr" \notin DOMAIN bts[1] THEN [doc |-> d, err |-> "msgp: attempted to decode a non-map"]
    ELSE LET r == DecodeEntries(d, bts, 2, bts[1].maphdr) IN
         IF r.err # NoErr THEN r
         ELSE IF \E i \in 1..Len(r.doc.RangeParts) : ~PartFits(r.doc.RangeParts[i])
         THEN [doc |-> r.doc, err |-> "range part content does not match its range"]
         ELSE [doc |-> [r.doc EXCEPT !.isFulfillment = FALSE, !.isLoaded = FALSE,
                                     !.rangePartsLoaded = FALSE,
                                     !.RangeParts = IF r.doc.Body # <<>> THEN <<>> ELSE @],
               err |-> NoErr]

\* snappy.Encode(nil, b): the length of the uncompressed data, then the data.
SnappyEncode(b) == <<[sz |-> Len(b)]>> \o b

\* snappy.Decode(nil, c): fails unless c starts with the length of what follows.
SnappyDecode(c) ==
    IF c # <<>> /\ "sz" \in DOMAIN c[1] /\ c[1].sz = Len(c) - 1
    THEN [bytes |-> Tail(c), err |-> NoErr]
    ELSE [bytes |-> <<>>, err |-> "snappy: corrupt input"]

\* mime.ParseMediaType(ct): the media type without its parameters; a
\* parameter without a value is an error.
ParseMediaType(ct) ==
    CASE ct = "text/plain; charset=utf-8" -> [mt |-> "text/plain", err |-> NoErr]
      [] ct = "image/png" -> [mt |-> "image/png", err |-> NoErr]
      [] ct = "text/plain; charset" -> [mt |-> "text/plain", err |-> "mime: invalid media parameter"]
      [] OTHER -> [mt |-> "", err |-> "mime: no media type"]

\* The compressible types of the backend options.
CompressTypes == {"text/plain"}

\* ------------------------------------------------------------------ state
VARIABLES
    cacheType,  \* c.Configuration().CacheType, fixed for the life of the store
    store,      \* what the store holds under each key
    heap,       \* the document objects a memory store references
    ret,        \* the last QueryCache / WriteCache call and what it returned
    written,    \* per key, the document of the last WriteCache that returned
                \* nil, while no one else has written or dropped the key
    wr,         \* a WriteCache call in progress, statement by statement
    rd,         \* a QueryCache call in progress beside it
    headerLock  \* d.headerLock of the document of the calls in progress: 0
                \* when unlocked, else the call that holds it

vars == <<cacheType, store, heap, ret, written, wr, rd, headerLock>>

\* No call is followed statement by statement.
NoCall == [pc |-> "none"]

ObjIds == 1..Cardinality(Keys)
NoObj == [free |-> TRUE]

Absent == [kind |-> "absent"]
Blob(b) == [kind |-> "bytes", bytes |-> b]
Ref(id) == [kind |-> "ref", ref |-> id]
\* a nil interface value, and an object that is not an *HTTPDocument
NilRef == [kind |-> "nilref"]
Foreign == [kind |-> "foreign"]

StatusHit == "hit"
StatusPartialHit == "phit"
StatusRangeMiss == "rmiss"
StatusKeyMiss == "kmiss"
StatusError == "error"

ErrKNF == "key not found in cache"
ErrIO == "store i/o failure"

StoreFaults == {"none", "io"}

RangeUniverse ==
    {Rng(p[1], p[2]) : p \in {q \in (0..MaxPos) \X (0..MaxPos) : q[1] <= q[2]}}
    \cup {Rng(-1, n) : n \in 1..MaxSuffix}

\* The ranges a caller may pass to QueryCache: none, or up to MaxWant ranges
\* in any order, overlapping or not.
WantSets == UNION {[1..n -> RangeUniverse] : n \in 0..MaxWant}

\* ------------------------------------------------------------ the store
\* c.Retrieve(key, true) / mc.RetrieveReference(key, true)
Retrieve(k, fault) ==
    IF fault = "io" THEN [val |-> Absent, status |-> StatusError, err |-> ErrIO]
    ELSE IF store[k] = Absent THEN [val |-> Absent, status |-> StatusKeyMiss, err |-> ErrKNF]
    ELSE [val |-> store[k], status |-> StatusHit, err |-> NoErr]

\* c.Store(key, bytes, ttl) / mc.StoreReference(key, d, ttl): all or nothing
StoreWrite(k, v, fault) ==
    IF fault = "io" THEN [store |-> store, err |-> ErrIO]
    ELSE [store |-> [store EXCEPT ![k] = v], err |-> NoErr]

\* The objects reachable from the store st or from a caller holding ref;
\* every other cell of the heap is garbage and is cleared.
LiveIn(st, ref) == {st[k].ref : k \in {j \in Keys : st[j].kind = "ref"}} \cup ({ref} \ {0})
Collect(h, st, ref) == [i \in ObjIds |-> IF i \in LiveIn(st, ref) THEN h[i] ELSE NoObj]

\* ------------------------------------------------------------ QueryCache
\* A miss return that hands back the wanted ranges whatever the status.
MissReturnAlwaysRanges(lookupStatus, err, ranges) ==
    [doc |-> EmptyDoc, ref |-> 0, status |-> lookupStatus, missing |-> ranges,
     err |-> err, panicked |-> FALSE]

\* A miss return that reports every failed retrieval as a key miss.
MissReturnAsKeyMiss(lookupStatus, err, ranges) ==
    [doc |-> EmptyDoc, ref |-> 0, status |-> StatusKeyMiss,
     missing |-> IF Len(ranges) > 0 THEN ranges ELSE <<>>,
     err |-> err, panicked |-> FALSE]

\* The return of a lookup the store did not answer with Hit.
MissReturn(lookupStatus, err, ranges) ==
    [doc |-> EmptyDoc, ref |-> 0, status |-> lookupStatus,
     missing |-> IF lookupStatus = StatusKeyMiss /\ Len(ranges) > 0 THEN ranges ELSE <<>>,
     err |-> err, panicked |-> FALSE]

\* check and remove compression bit
PeelCompressionBit(bytes) ==
    IF Len(bytes) > 0
    THEN [inflate |-> (bytes[1] = Byte(1)), bytes |-> Tail(bytes)]
    ELSE [inflate |-> FALSE, bytes |-> bytes]

\* Inflate without the decompression: the payload is used as stored.
InflateNever(p) == p.bytes

\* Inflate that gives up the payload when the decompression fails.
InflateStrict(p) ==
    IF p.inflate
    THEN LET b == SnappyDecode(p.bytes) IN IF b.err = NoErr THEN b.bytes ELSE <<>>
    ELSE p.bytes

\* if inflate: snappy.Decode, and keep the bytes as they are when it fails
Inflate(p) ==
    IF p.inflate
    THEN LET b == SnappyDecode(p.bytes) IN IF b.err = NoErr THEN b.bytes ELSE p.bytes
    ELSE p.bytes

\* d.isFulfillment
IsFulfillment(d, ranges) == Len(d.Ranges) > 0 /\ Len(ranges) = 0

\* The entire object, one byte short.
FulfillmentRangesShort(d) == <<Rng(0, d.ContentLength - 2)>>

\* the requested range inflated to the entire object
FulfillmentRanges(d) == <<Rng(0, d.ContentLength - 1)>>

\* The two range statuses the wrong way round.
DeltaStatusSwapped(delta, ranges) ==
    IF RangesEqual(delta, ranges) THEN StatusPartialHit ELSE StatusRangeMiss

\* the status of a lookup whose delta is not empty
DeltaStatus(delta, ranges) ==
    IF RangesEqual(delta, ranges) THEN StatusRangeMiss ELSE StatusPartialHit

\* The delta taken the wrong way round: what is stored but not wanted.
LookupDeltaSwapped(d, ranges) == CalculateDelta(d.Ranges, ranges, d.ContentLength)

\* delta = ranges.CalculateDelta(d.Ranges, d.ContentLength)
LookupDelta(d, ranges) == CalculateDelta(ranges, d.Ranges, d.ContentLength)

\* The delta of the wanted against the stored ranges, and the classification.
RangeLookup(d, ref, lookupStatus, wanted) ==
    LET ful == IsFulfillment(d, wanted)
        ranges == IF ful THEN FulfillmentRanges(d) ELSE wanted
        calc == Len(ranges) > 0 /\ Len(d.Ranges) > 0
        delta == IF calc THEN LookupDelta(d, ranges) ELSE <<>>
    IN [doc |-> [d EXCEPT !.isFulfillment = ful], ref |-> ref,
        status |-> IF Len(delta) > 0 THEN DeltaStatus(delta, ranges) ELSE lookupStatus,
        missing |-> delta, err |-> NoErr, panicked |-> FALSE]

\* A nil *HTTPDocument is dereferenced: the call panics.
Panic ==
    [doc |-> EmptyDoc, ref |-> 0, status |-> "none", missing |-> <<>>,
     err |-> "nil pointer dereference", panicked |-> TRUE]

QueryMemory(got, ranges) ==
    IF got.err # NoErr \/ got.status # StatusHit
    THEN MissReturn(got.status, got.err, ranges)
    ELSE IF got.val = NilRef
    THEN [doc |-> EmptyDoc, ref |-> 0, status |-> StatusKeyMiss, missing |-> ranges,
          err |-> got.err, panicked |-> FALSE]
    ELSE IF got.val.kind # "ref" THEN Panic
    ELSE RangeLookup(heap[got.val.ref], got.val.ref, got.status, ranges)

\* A byte lookup that gives up with the decompression error when the flagged
\* payload does not decompress.
QueryBytesDecodeErr(got, ranges) ==
    IF got.err # NoErr \/ got.status # StatusHit
    THEN MissReturn(got.status, got.err, ranges)
    ELSE LET p == PeelCompressionBit(got.val.bytes)
             b == IF p.inflate THEN SnappyDecode(p.bytes) ELSE [bytes |-> p.bytes, err |-> NoErr]
             u == UnmarshalMsg(EmptyDoc, b.bytes)
         IN IF b.err # NoErr
            THEN [doc |-> EmptyDoc, ref |-> 0, status |-> StatusKeyMiss, missing |-> ranges,
                  err |-> b.err, panicked |-> FALSE]
            ELSE IF u.err # NoErr
            THEN [doc |-> u.doc, ref |-> 0, status |-> StatusKeyMiss, missing |-> ranges,
                  err |-> u.err, panicked |-> FALSE]
            ELSE RangeLookup(u.doc, 0, got.status, ranges)

\* A byte lookup that goes on with whatever was decoded when the
\* deserialization fails.
QueryBytesKeepCorrupt(got, ranges) ==
    IF got.err # NoErr \/ got.status # StatusHit
    THEN MissReturn(got.status, got.err, ranges)
    ELSE LET u == UnmarshalMsg(EmptyDoc, Inflate(PeelCompressionBit(got.val.bytes))) IN
         RangeLookup(u.doc, 0, got.status, ranges)

\* A byte lookup that keeps the store's status when the deserialization fails.
QueryBytesErrAsHit(got, ranges) ==
    IF got.err # NoErr \/ got.status # StatusHit
    THEN MissReturn(got.status, got.err, ranges)
    ELSE LET u == UnmarshalMsg(EmptyDoc, Inflate(PeelCompressionBit(got.val.bytes))) IN
         IF u.err # NoErr
         THEN [doc |-> u.doc, ref |-> 0, status |-> got.status, missing |-> <<>>,
               err |-> u.err, panicked |-> FALSE]
         ELSE RangeLookup(u.doc, 0, got.status, ranges)

QueryBytes(got, ranges) ==
    IF got.err # NoErr \/ got.status # StatusHit
    THEN MissReturn(got.status, got.err, ranges)
    ELSE LET u == UnmarshalMsg(EmptyDoc, Inflate(PeelCompressionBit(got.val.bytes))) IN
         IF u.err # NoErr
         THEN [doc |-> u.doc, ref |-> 0, status |-> StatusKeyMiss, missing |-> ranges,
               err |-> u.err, panicked |-> FALSE]
         ELSE RangeLookup(u.doc, 0, got.status, ranges)

\* A QueryCache that asks the store again after a failure.
RetrieveCallsRetry(k, got) ==
    LET call == [fn |-> IF cacheType = "memory" THEN "RetrieveReference" ELSE "Retrieve",
                 key |-> k]
    IN IF got.err # NoErr THEN <<call, call>> ELSE <<call>>

\* The calls QueryCache makes to the store: mc.RetrieveReference on a memory
\* store, c.Retrieve on any other, once, whatever it returned.
RetrieveCalls(k, got) ==
    <<[fn |-> IF cacheType = "memory" THEN "RetrieveReference" ELSE "Retrieve", key |-> k]>>

QueryCache(k, ranges, fault) ==
    LET got == Retrieve(k, fault)
        r == IF cacheType = "memory" THEN QueryMemory(got, ranges) ELSE QueryBytes(got, ranges)
    IN /\ ret.op = "none"
       /\ ret' = [op |-> "query", key |-> k, want |-> ranges, got |-> got,
                  doc |-> r.doc, ref |-> r.ref, status |-> r.status,
                  missing |-> r.missing, err |-> r.err, panicked |-> r.panicked,
                  compress |-> FALSE, src |-> "none", calls |-> RetrieveCalls(k, got)]
       /\ heap' = Collect(IF r.ref # 0 THEN [heap EXCEPT ![r.ref] = r.doc] ELSE heap,
                          store, r.ref)
       /\ UNCHANGED <<cacheType, store, written, wr, rd, headerLock>>

\* A scrub that leaves the Date header.
ScrubHeadersKeepDate(h) ==
    HeaderDel(HeaderDel(HeaderDel(h, HeaderTransferEncoding), HeaderContentRange),
              HeaderTricksterResult)

\* ------------------------------------------------------------ WriteCache
\* under the header lock: h.Del of the four headers
ScrubHeaders(h) ==
    HeaderDel(HeaderDel(HeaderDel(HeaderDel(h, HeaderDate), HeaderTransferEncoding),
                        HeaderContentRange), HeaderTricksterResult)

\* A compression decision that takes the media type whether or not the
\* content type parsed.
ShouldCompressAnyParse(ce, d) ==
    /\ (ce = "" \/ ce = "identity")
    /\ (d.CachingPolicy = Nil \/ ~d.CachingPolicy.NoTransform)
    /\ ParseMediaType(d.ContentType).mt \in CompressTypes

\* the compression decision
ShouldCompress(ce, d) ==
    /\ (ce = "" \/ ce = "identity")
    /\ (d.CachingPolicy = Nil \/ ~d.CachingPolicy.NoTransform)
    /\ LET p == ParseMediaType(d.ContentType) IN
         p.err = NoErr /\ p.mt \in CompressTypes

\* cp.ResetClientConditionals()
ResetClientConditionals(cp) == [cp EXCEPT !.IsClientConditional = FALSE]

\* Resets that leave the fulfillment flag as it is.
ResetForReferenceKeepFulfillment(d) ==
    [d EXCEPT !.rangePartsLoaded = FALSE, !.isLoaded = FALSE,
              !.RangeParts = <<>>,
              !.CachingPolicy = IF @ # Nil THEN ResetClientConditionals(@) ELSE @]

\* for memory cache: the resets before the document is stored by reference
ResetForReference(d) ==
    [d EXCEPT !.rangePartsLoaded = FALSE, !.isFulfillment = FALSE, !.isLoaded = FALSE,
              !.RangeParts = <<>>,
              !.CachingPolicy = IF @ # Nil THEN ResetClientConditionals(@) ELSE @]

\* A blob with the two flags the wrong way round.
EncodeBlobFlagsSwapped(d, compress) ==
    LET m == MarshalMsg(d) IN
    IF compress THEN <<Byte(0)>> \o SnappyEncode(m.bytes) ELSE <<Byte(1)>> \o m.bytes

\* for non-memory: the flag byte and the payload
EncodeBlob(d, compress) ==
    LET m == MarshalMsg(d) IN
    IF compress THEN <<Byte(1)>> \o SnappyEncode(m.bytes) ELSE <<Byte(0)>> \o m.bytes

\* The documents a request may pass: one fresh from a response, or the one
\* its lookup returned.
HitLike == {StatusHit, StatusPartialHit, StatusRangeMiss}
WriteSources ==
    IF ret.op = "none" THEN {[kind |-> "fresh", doc |-> d] : d \in InputDocs}
    ELSE IF ret.op = "query" /\ ret.status \in HitLike THEN {[kind |-> "back"]}
    ELSE {}

\* The cell a fresh document written under k takes: the first one no other
\* key references.
NewId(k) ==
    CHOOSE i \in ObjIds :
        /\ i \notin LiveIn([store EXCEPT ![k] = Absent], 0)
        /\ \A j \in ObjIds : j < i => j \in LiveIn([store EXCEPT ![k] = Absent], 0)

\* The calls WriteCache makes to the store: mc.StoreReference on a memory
\* store, c.Store on any other, once, whatever it returned.
StoreCalls(k, w) ==
    <<[fn |-> IF cacheType = "memory" THEN "StoreReference" ELSE "Store", key |-> k]>>

\* A WriteCache that returns nil whatever the store returned.
WriteResultNil(k, d, ref, w, compress, src) ==
    [op |-> "write", key |-> k, want |-> <<>>,
     got |-> [val |-> Absent, status |-> "none", err |-> w.err],
     doc |-> d, ref |-> ref, status |-> "none", missing |-> <<>>, err |-> NoErr,
     panicked |-> FALSE, compress |-> compress, src |-> src.kind,
     calls |-> StoreCalls(k, w)]

\* What WriteCache returns, w being what Store / StoreReference returned.
WriteResult(k, d, ref, w, compress, src) ==
    [op |-> "write", key |-> k, want |-> <<>>,
     got |-> [val |-> Absent, status |-> "none", err |-> w.err],
     doc |-> d, ref |-> ref, status |-> "none", missing |-> <<>>, err |-> w.err,
     panicked |-> FALSE, compress |-> compress, src |-> src.kind,
     calls |-> StoreCalls(k, w)]

WriteMemory(k, src, fault) ==
    LET d0 == IF src.kind = "fresh" THEN src.doc ELSE heap[ret.ref]
        d1 == [d0 EXCEPT !.Headers = ScrubHeaders(@)]
        compress == ShouldCompress(HeaderGet(d1.Headers, HeaderContentEncoding), d1)
        d2 == ResetForReference(d1)
        id == IF src.kind = "fresh" THEN NewId(k) ELSE ret.ref
        w == StoreWrite(k, Ref(id), fault)
        kept == IF w.err = NoErr \/ src.kind = "back" THEN id ELSE 0
    IN /\ store' = w.store
       /\ heap' = Collect(IF kept # 0 THEN [heap EXCEPT ![id] = d2] ELSE heap, w.store, kept)
       /\ ret' = WriteResult(k, d2, kept, w, compress, src)
       /\ written' = IF w.err = NoErr THEN [written EXCEPT ![k] = d2] ELSE written

\* The serialization of a document is total here, as the encoding is
\* described; the error return of d.MarshalMsg that WriteCache receives is an
\* input of the statement-level WriteMarshal below.
WriteBytes(k, src, fault) ==
    LET d0 == IF src.kind = "fresh" THEN src.doc ELSE ret.doc
        d1 == [d0 EXCEPT !.Headers = ScrubHeaders(@)]
        compress == ShouldCompress(HeaderGet(d1.Headers, HeaderContentEncoding), d1)
        w == StoreWrite(k, Blob(EncodeBlob(d1, compress)), fault)
    IN /\ store' = w.store
       /\ heap' = heap
       /\ ret' = WriteResult(k, d1, 0, w, compress, src)
       /\ written' = IF w.err = NoErr THEN [written EXCEPT ![k] = d1] ELSE written

WriteCache(k, src, fault) ==
    /\ IF cacheType = "memory" THEN WriteMemory(k, src, fault) ELSE WriteBytes(k, src, fault)
    /\ UNCHANGED <<cacheType, wr, rd, headerLock>>

\* ------------------------------------------------------- the store's world
\* The store drops an entry (expiry, eviction).
Evict(k) ==
    /\ store[k] # Absent
    /\ store' = [store EXCEPT ![k] = Absent]
    /\ heap' = Collect(heap, store', ret.ref)
    /\ written' = [written EXCEPT ![k] = Nil]
    /\ UNCHANGED <<cacheType, ret, wr, rd, headerLock>>

\* Another user of the memory store puts a nil or a non-document object
\* (between two requests of this pipeline).
StoreForeign(k, v) ==
    /\ cacheType = "memory"
    /\ ret.op = "none"
    /\ store[k] # v
    /\ store' = [store EXCEPT ![k] = v]
    /\ heap' = Collect(heap, store', ret.ref)
    /\ written' = [written EXCEPT ![k] = Nil]
    /\ UNCHANGED <<cacheType, ret, wr, rd, headerLock>>

\* Blobs that WriteCache did not write (put between two requests of this
\* pipeline): truncated, mis-flagged, from a later version of the encoding,
\* with a range part longer than its range.
ForeignBlobs ==
    LET d == RangeDoc(NoHeaders, "image/png", Nil, <<Rng(0, 0)>>, KnownLength)
        m == MarshalMsg(d).bytes
    IN {<<>>,
        <<Byte(1)>>,
        <<Byte(1)>> \o m,
        <<Byte(0)>> \o SubSeq(m, 1, 3),
        <<Byte(1)>> \o SnappyEncode(SubSeq(m, 1, 3)),
        m,
        <<Byte(0), MapHeader(9)>> \o Tail(m) \o <<Entry("future_field", 1)>>,
        <<Byte(0)>> \o MarshalMsg([d EXCEPT !.RangeParts[1].Content = <<0, 1>>]).bytes,
        <<Byte(0)>> \o SnappyEncode(m)}

PutBlob(k, b) ==
    /\ cacheType # "memory"
    /\ ret.op = "none"
    /\ store[k] # Blob(b)
    /\ store' = [store EXCEPT ![k] = Blob(b)]
    /\ written' = [written EXCEPT ![k] = Nil]
    /\ UNCHANGED <<cacheType, heap, ret, wr, rd, headerLock>>

\* No call is in progress and no result is held.
Idle ==
    [op |-> "none", key |-> "k1", want |-> <<>>,
     got |-> [val |-> Absent, status |-> "none", err |-> NoErr],
     doc |-> EmptyDoc, ref |-> 0, status |-> "none", missing |-> <<>>, err |-> NoErr,
     panicked |-> FALSE, compress |-> FALSE, src |-> "none", calls |-> <<>>]

\* The request that made the last call completes and drops what it holds.
Done ==
    /\ ret.op # "none"
    /\ ret' = Idle
    /\ heap' = Collect(heap, store, 0)
    /\ UNCHANGED <<cacheType, store, written, wr, rd, headerLock>>

\* ---------------------------------------------------------- specification
Init ==
    /\ cacheType \in CacheTypes
    /\ store = [k \in Keys |-> Absent]
    /\ heap = [i \in ObjIds |-> NoObj]
    /\ ret = Idle
    /\ written = [k \in Keys |-> Nil]
    /\ wr = NoCall
    /\ rd = NoCall
    /\ headerLock = 0

Next ==
    \/ \E k \in Keys, ranges \in WantSets, fault \in StoreFaults : QueryCache(k, ranges, fault)
    \/ \E k \in Keys, src \in WriteSources, fault \in StoreFaults : WriteCache(k, src, fault)
    \/ \E k \in Keys : Evict(k)
    \/ \E k \in Keys, v \in {NilRef, Foreign} : StoreForeign(k, v)
    \/ \E k \in Keys, b \in ForeignBlobs : PutBlob(k, b)
    \/ Done

Spec == Init /\ [][Next]_vars

\* ------------------------------------- one write beside one read, by statement
\* One request has read the document under ConcKey and writes it back while a
\* second request looks the key up.  On a memory store the first request holds
\* the store's own object; on a byte store it holds its own decoded copy.
ConcKey == CHOOSE k \in Keys : TRUE

\* The document the writing request holds.
WrDoc == IF cacheType = "memory" THEN heap[wr.id] ELSE wr.doc

WrHolds(id, d) ==
    [pc |-> "holds", id |-> id, doc |-> d, n |-> 0, pre |-> EmptyDoc, post |-> EmptyDoc,
     compress |-> FALSE, bytes |-> <<>>, merr |-> NoErr, err |-> NoErr,
     cancelled |-> FALSE]

RdIdle ==
    [pc |-> "idle", want |-> <<>>, got |-> [val |-> Absent, status |-> "none", err |-> NoErr],
     doc |-> EmptyDoc, status |-> "none", missing |-> <<>>, err |-> NoErr,
     cancelled |-> FALSE]

\* The store holds a document an earlier WriteCache stored, and the writing
\* request has looked it up.
ConcInit ==
    /\ cacheType \in CacheTypes
    /\ \E d \in InputDocs :
         LET d1 == [d EXCEPT !.Headers = ScrubHeaders(@)]
             b == EncodeBlob(d1, ShouldCompress(HeaderGet(d1.Headers, HeaderContentEncoding), d1))
         IN IF cacheType = "memory"
            THEN /\ store = [k \in Keys |-> Ref(1)]
                 /\ heap = [i \in ObjIds |-> ResetForReference(d1)]
                 /\ wr = WrHolds(1, EmptyDoc)
            ELSE /\ store = [k \in Keys |-> Blob(b)]
                 /\ heap = [i \in ObjIds |-> NoObj]
                 /\ wr = WrHolds(0, UnmarshalMsg(EmptyDoc, Inflate(PeelCompressionBit(b))).doc)
    /\ rd = RdIdle
    /\ ret = Idle
    /\ written = [k \in Keys |-> Nil]
    /\ headerLock = 0

\* The request that read the document sets response headers on it, under the
\* document's header lock, before it writes the document back.
OwnerSetHeaders ==
    /\ wr.pc = "holds"
    /\ LET d == [WrDoc EXCEPT !.Headers = (HeaderDate :> "now")
                                 @@ (HeaderTricksterResult :> "engine=ObjectProxyCache") @@ @]
       IN IF cacheType = "memory"
          THEN heap' = [heap EXCEPT ![wr.id] = d] /\ wr' = [wr EXCEPT !.pc = "ready"]
          ELSE heap' = heap /\ wr' = [wr EXCEPT !.pc = "ready", !.doc = d]
    /\ UNCHANGED <<cacheType, store, ret, written, rd, headerLock>>

\* WriteCache is entered and takes the header lock: what the store holds now,
\* and what the call is to leave in the store.
WriteEnter ==
    /\ wr.pc = "ready"
    /\ LET d1 == [WrDoc EXCEPT !.Headers = ScrubHeaders(@)] IN
         wr' = [wr EXCEPT !.pc = "del", !.n = 1,
                  !.pre = IF cacheType = "memory" THEN WrDoc
                          ELSE UnmarshalMsg(EmptyDoc,
                                 Inflate(PeelCompressionBit(store[ConcKey].bytes))).doc,
                  !.post = IF cacheType = "memory" THEN ResetForReference(d1)
                           ELSE UnmarshalMsg(EmptyDoc, MarshalMsg(d1).bytes).doc]
    /\ headerLock = 0
    /\ headerLock' = 1
    /\ UNCHANGED <<cacheType, store, heap, ret, written, rd>>

\* h.Del of the four headers, one statement each; with the last, h.Get of
\* Content-Encoding, the release of the header lock and the compression
\* decision.
HeaderOrder ==
    <<HeaderDate, HeaderTransferEncoding, HeaderContentRange, HeaderTricksterResult>>

WriteDel ==
    /\ wr.pc = "del"
    /\ LET d == [WrDoc EXCEPT !.Headers = HeaderDel(@, HeaderOrder[wr.n])]
           last == wr.n = Len(HeaderOrder)
           w == [wr EXCEPT !.n = IF last THEN 1 ELSE @ + 1,
                           !.pc = IF ~last THEN @
                                  ELSE IF cacheType = "memory" THEN "reset" ELSE "marshal",
                           !.compress = last /\ ShouldCompress(
                                           HeaderGet(d.Headers, HeaderContentEncoding), d)]
       IN /\ IF cacheType = "memory"
             THEN heap' = [heap EXCEPT ![wr.id] = d] /\ wr' = w
             ELSE heap' = heap /\ wr' = [w EXCEPT !.doc = d]
          /\ headerLock' = IF last THEN 0 ELSE headerLock
    /\ UNCHANGED <<cacheType, store, ret, written, rd>>

\* for memory cache: the five resets, one statement each
WriteReset ==
    /\ wr.pc = "reset"
    /\ LET d == heap[wr.id] IN
         heap' = [heap EXCEPT ![wr.id] =
                    CASE wr.n = 1 -> [d EXCEPT !.rangePartsLoaded = FALSE]
                      [] wr.n = 2 -> [d EXCEPT !.isFulfillment = FALSE]
                      [] wr.n = 3 -> [d EXCEPT !.isLoaded = FALSE]
                      [] wr.n = 4 -> [d EXCEPT !.RangeParts = <<>>]
                      [] OTHER -> [d EXCEPT !.CachingPolicy =
                                     IF @ # Nil THEN ResetClientConditionals(@) ELSE @]]
    /\ wr' = [wr EXCEPT !.n = IF @ = 5 THEN 1 ELSE @ + 1,
                        !.pc = IF wr.n = 5 THEN "store" ELSE @]
    /\ UNCHANGED <<cacheType, store, ret, written, rd, headerLock>>

\* return mc.StoreReference(key, d, ttl)
WriteStoreReference(fault) ==
    /\ wr.pc = "store" /\ cacheType = "memory"
    /\ store' = StoreWrite(ConcKey, Ref(wr.id), fault).store
    /\ wr' = [wr EXCEPT !.pc = "done", !.err = StoreWrite(ConcKey, Ref(wr.id), fault).err]
    /\ UNCHANGED <<cacheType, heap, ret, written, rd, headerLock>>

\* What d.MarshalMsg(nil) may return to WriteCache: the serialization and
\* nil, or an error with the bytes appended before the field that failed (the
\* map header, or the header and the first fields).
ErrMarshal == "msgp: marshal failure"
MarshalCuts == {1, 3}
MarshalOutcomes(d) ==
    {MarshalMsg(d)}
      \cup {[bytes |-> SubSeq(MarshalMsg(d).bytes, 1, n), err |-> ErrMarshal] : n \in MarshalCuts}

\* The flag byte ahead of whatever MarshalMsg returned.
FlagBytes(bytes, compress) ==
    IF compress THEN <<Byte(1)>> \o SnappyEncode(bytes) ELSE <<Byte(0)>> \o bytes

\* bytes, err = d.MarshalMsg(nil), the error only logged, and the flag byte
WriteMarshal(m) ==
    /\ wr.pc = "marshal"
    /\ wr' = [wr EXCEPT !.pc = "store", !.bytes = FlagBytes(m.bytes, wr.compress),
                        !.merr = m.err]
    /\ UNCHANGED <<cacheType, store, heap, ret, written, rd, headerLock>>

\* err = c.Store(key, bytes, ttl), and the return of err
WriteStore(fault) ==
    /\ wr.pc = "store" /\ cacheType # "memory"
    /\ store' = StoreWrite(ConcKey, Blob(wr.bytes), fault).store
    /\ wr' = [wr EXCEPT !.pc = "done", !.err = StoreWrite(ConcKey, Blob(wr.bytes), fault).err]
    /\ UNCHANGED <<cacheType, heap, ret, written, rd, headerLock>>

\* The second request enters QueryCache while the WriteCache call is under
\* way: c.Retrieve / mc.RetrieveReference.
ReadRetrieve(ranges) ==
    /\ rd.pc = "idle"
    /\ wr.pc \in {"del", "reset", "marshal", "store"}
    /\ rd' = [rd EXCEPT !.pc = "got", !.want = ranges, !.got = Retrieve(ConcKey, "none")]
    /\ UNCHANGED <<cacheType, store, heap, ret, written, wr, headerLock>>

\* The rest of QueryCache; on a memory store the document returned is the
\* store's object as it is at the return.
ReadReturn ==
    /\ rd.pc = "got"
    /\ LET r == IF cacheType = "memory" THEN QueryMemory(rd.got, rd.want)
                ELSE QueryBytes(rd.got, rd.want)
       IN /\ rd' = [rd EXCEPT !.pc = "returned", !.doc = r.doc, !.status = r.status,
                              !.missing = r.missing, !.err = r.err]
          /\ heap' = IF r.ref # 0 THEN [heap EXCEPT ![r.ref] = r.doc] ELSE heap
    /\ UNCHANGED <<cacheType, store, ret, written, wr, headerLock>>

\* The caller's context is cancelled while its WriteCache call is running.
\* Nothing in WriteCache reads ctx.Done() or ctx.Err(), and Store and
\* StoreReference are not passed the context.
CancelWrite ==
    /\ wr.pc \in {"del", "reset", "marshal", "store"}
    /\ ~wr.cancelled
    /\ wr' = [wr EXCEPT !.cancelled = TRUE]
    /\ UNCHANGED <<cacheType, store, heap, ret, written, rd, headerLock>>

\* The caller's context is cancelled while its QueryCache call is running.
CancelRead ==
    /\ rd.pc = "got"
    /\ ~rd.cancelled
    /\ rd' = [rd EXCEPT !.cancelled = TRUE]
    /\ UNCHANGED <<cacheType, store, heap, ret, written, wr, headerLock>>

ConcNext ==
    \/ OwnerSetHeaders
    \/ WriteEnter
    \/ WriteDel
    \/ WriteReset
    \/ \E fault \in StoreFaults : WriteStoreReference(fault)
    \/ \E m \in MarshalOutcomes(wr.doc) : WriteMarshal(m)
    \/ \E fault \in StoreFaults : WriteStore(fault)
    \/ \E ranges \in WantSets : ReadRetrieve(ranges)
    \/ ReadReturn
    \/ CancelWrite
    \/ CancelRead

ConcSpec == ConcInit /\ [][ConcNext]_vars

\* ------------------------------------ two writes of one document, by statement
\* Two requests hold the same document, heap[1], and call WriteCache with it
\* at the same time.
Callers == {1, 2}

LockReady == [pc |-> "ready", n |-> 0, ce |-> "", compress |-> FALSE, err |-> NoErr]

LockInit ==
    /\ cacheType \in CacheTypes
    /\ store = [k \in Keys |-> Absent]
    /\ \E d \in InputDocs : heap = [i \in ObjIds |-> IF i = 1 THEN d ELSE NoObj]
    /\ ret = Idle
    /\ written = [k \in Keys |-> Nil]
    /\ wr = [c \in Callers |-> LockReady]
    /\ rd = NoCall
    /\ headerLock = 0

\* d.headerLock.Lock() that does not wait for the lock to be free.
LockHeadersNoWait(c) ==
    /\ wr[c].pc = "ready"
    /\ headerLock' = c
    /\ wr' = [wr EXCEPT ![c].pc = "del", ![c].n = 1]
    /\ UNCHANGED <<cacheType, store, heap, ret, written, rd>>

\* d.headerLock.Lock(): the call waits while another one holds the lock
LockHeaders(c) ==
    /\ wr[c].pc = "ready"
    /\ headerLock = 0
    /\ headerLock' = c
    /\ wr' = [wr EXCEPT ![c].pc = "del", ![c].n = 1]
    /\ UNCHANGED <<cacheType, store, heap, ret, written, rd>>

\* h.Del of one of the four headers
DelHeader(c) ==
    /\ wr[c].pc = "del"
    /\ heap' = [heap EXCEPT ![1].Headers = HeaderDel(@, HeaderOrder[wr[c].n])]
    /\ wr' = [wr EXCEPT ![c].n = IF @ = Len(HeaderOrder) THEN 0 ELSE @ + 1,
                        ![c].pc = IF wr[c].n = Len(HeaderOrder) THEN "get" ELSE @]
    /\ UNCHANGED <<cacheType, store, ret, written, rd, headerLock>>

\* ce := h.Get(headers.NameContentEncoding)
GetContentEncoding(c) ==
    /\ wr[c].pc = "get"
    /\ wr' = [wr EXCEPT ![c].ce = HeaderGet(heap[1].Headers, HeaderContentEncoding),
                        ![c].pc = "unlock"]
    /\ UNCHANGED <<cacheType, store, heap, ret, written, rd, headerLock>>

\* d.headerLock.Unlock(), and the compression decision that follows it
UnlockHeaders(c) ==
    /\ wr[c].pc = "unlock"
    /\ headerLock' = 0
    /\ wr' = [wr EXCEPT ![c].compress = ShouldCompress(wr[c].ce, heap[1]),
                        ![c].pc = "store"]
    /\ UNCHANGED <<cacheType, store, heap, ret, written, rd>>

\* The rest of WriteCache: the resets and mc.StoreReference, or d.MarshalMsg,
\* the flag byte and c.Store; the call returns the store's error.
StoreDocument(c, fault) ==
    /\ wr[c].pc = "store"
    /\ LET d == IF cacheType = "memory" THEN ResetForReference(heap[1]) ELSE heap[1]
           w == StoreWrite(ConcKey,
                           IF cacheType = "memory" THEN Ref(1)
                           ELSE Blob(EncodeBlob(d, wr[c].compress)), fault)
       IN /\ heap' = [heap EXCEPT ![1] = d]
          /\ store' = w.store
          /\ wr' = [wr EXCEPT ![c].pc = "returned", ![c].err = w.err]
    /\ UNCHANGED <<cacheType, ret, written, rd, headerLock>>

LockNext ==
    \/ \E c \in Callers : LockHeaders(c)
    \/ \E c \in Callers : DelHeader(c)
    \/ \E c \in Callers : GetContentEncoding(c)
    \/ \E c \in Callers : UnlockHeaders(c)
    \/ \E c \in Callers, fault \in StoreFaults : StoreDocument(c, fault)

LockSpec == LockInit /\ [][LockNext]_vars

\* --------------------------------------------- documents from HTTP responses
\* Header maps are held by reference: maps is the sequence of the maps there
\* are, a reference is the index of one, and 0 is the nil map.
NilMap == 0
MapAt(maps, ref) == IF ref = NilMap THEN NoHeaders ELSE maps[ref]

\* A Clone that hands back the map it was given.
CloneShared(maps, ref) == [maps |-> maps, ref |-> ref]

\* resp.Header.Clone(): a new map with the entries of the old one
Clone(maps, ref) == [maps |-> Append(maps, maps[ref]), ref |-> Len(maps) + 1]

StatusOK == 200
StatusPartialContent == 206
StatusText(code) == IF code = StatusPartialContent THEN "206 Partial Content" ELSE "200 OK"

ValueMultipartByteRanges == "multipart/byteranges"
MultipartContentType == "multipart/byteranges; boundary=b"
\* strings.HasPrefix(ct, headers.ValueMultipartByteRanges)
HasMultipartPrefix(ct) == ct \in {ValueMultipartByteRanges, MultipartContentType}

\* The Content-Range values of the responses: of an object of KnownLength
\* bytes, the first byte, the last byte, and all of them.
ContentRangeFirst == "bytes 0-0/N"
ContentRangeLast == "bytes (N-1)-(N-1)/N"
ContentRangeAll == "bytes 0-(N-1)/N"
ContentRanges == {ContentRangeFirst, ContentRangeLast, ContentRangeAll}
\* byterange.ParseContentRangeHeader
ParseContentRangeHeader(v) ==
    CASE v = ContentRangeFirst -> [r |-> Rng(0, 0), err |-> NoErr]
      [] v = ContentRangeLast -> [r |-> Rng(KnownLength - 1, KnownLength - 1), err |-> NoErr]
      [] v = ContentRangeAll -> [r |-> Rng(0, KnownLength - 1), err |-> NoErr]
      [] OTHER -> [r |-> Rng(0, 0), err |-> "invalid content-range header"]

\* A multipart/byteranges body: each part is the boundary, the first and the
\* last position of its Content-Range, and its content.
Boundary == 255
RECURSIVE EncodeMultipart(_)
EncodeMultipart(parts) ==
    IF parts = <<>> THEN <<>>
    ELSE <<Boundary, Head(parts).Range.Start, Head(parts).Range.End>>
         \o Head(parts).Content \o EncodeMultipart(Tail(parts))

\* The body split at the boundary, each part with the range its
\* Content-Range gives; what does not parse is dropped.
RECURSIVE ParseMultipart(_)
ParseMultipart(body) ==
    IF Len(body) < 3 \/ Head(body) # Boundary THEN <<>>
    ELSE LET r == Rng(body[2], body[3])
             n == r.End - r.Start + 1
         IN IF n < 1 \/ Len(body) < 3 + n THEN <<>>
            ELSE <<[Range |-> r, Content |-> SubSeq(body, 4, 3 + n)]>>
                 \o ParseMultipart(SubSeq(body, 4 + n, Len(body)))

\* d.SetBody(body)
SetBody(d, body) == [d EXCEPT !.Body = body, !.isLoaded = body # <<>>]

\* d.ParsePartialContentBody(resp, body, log): the parts of a multipart
\* body, or one part of the range the Content-Range header names.
ParsePartialContentBody(d, h, body) ==
    LET cr == ParseContentRangeHeader(HeaderGet(h, HeaderContentRange))
        parts == IF HeaderContentRange \in DOMAIN h
                 THEN IF cr.err = NoErr THEN <<[Range |-> cr.r, Content |-> body]>> ELSE <<>>
                 ELSE IF HasMultipartPrefix(HeaderGet(h, HeaderContentType))
                 THEN ParseMultipart(body)
                 ELSE <<>>
    IN [d EXCEPT !.RangeParts = parts,
                 !.Ranges = [i \in 1..Len(parts) |-> parts[i].Range],
                 !.rangePartsLoaded = parts # <<>>]

\* The parts follow one another from position 0 to the last of cl bytes.
RECURSIVE PartsCover(_, _, _)
PartsCover(parts, from, cl) ==
    IF parts = <<>> THEN from = cl /\ cl > 0
    ELSE Head(parts).Range.Start = from
         /\ PartsCover(Tail(parts), Head(parts).Range.End + 1, cl)

RECURSIVE ConcatParts(_)
ConcatParts(parts) ==
    IF parts = <<>> THEN <<>> ELSE Head(parts).Content \o ConcatParts(Tail(parts))

\* d.FulfillContentBody(): once the parts hold all of the content, they are
\* made the body.
FulfillContentBody(d) ==
    IF d.RangeParts # <<>> /\ PartsCover(d.RangeParts, 0, d.ContentLength)
    THEN [d EXCEPT !.Body = ConcatParts(d.RangeParts), !.Ranges = <<>>,
                   !.RangeParts = <<>>, !.rangePartsLoaded = FALSE, !.isLoaded = TRUE]
    ELSE d

\* An http.Response as far as DocumentFromHTTPResponse reads it; Header is a
\* reference to its header map.
Response(code, cl, ref) ==
    [StatusCode |-> code, Status |-> StatusText(code), ContentLength |-> cl, Header |-> ref]

\* A DocumentFromHTTPResponse that takes a 206 response with no body for
\* partial content as well.
DocumentFromAnyPartial(resp, body, cp, maps) ==
    LET c == IF resp.Header # NilMap THEN Clone(maps, resp.Header)
             ELSE [maps |-> maps, ref |-> NilMap]
        h == MapAt(c.maps, c.ref)
        ct == HeaderGet(h, HeaderContentType)
        d0 == [Status |-> resp.Status] @@
              [EmptyDoc EXCEPT !.StatusCode = resp.StatusCode, !.CachingPolicy = cp,
                               !.ContentLength = resp.ContentLength, !.Headers = c.ref,
                               !.ContentType = IF HasMultipartPrefix(ct) THEN "" ELSE ct]
    IN [maps |-> c.maps,
        d |-> IF d0.StatusCode = StatusPartialContent
              THEN FulfillContentBody(ParsePartialContentBody(d0, MapAt(maps, resp.Header), body))
              ELSE SetBody(d0, body)]

\* DocumentFromHTTPResponse(resp, body, cp, log): the document, whose Headers
\* is a reference to a header map, and the header maps there are after it.
DocumentFromHTTPResponse(resp, body, cp, maps) ==
    LET c == IF resp.Header # NilMap THEN Clone(maps, resp.Header)
             ELSE [maps |-> maps, ref |-> NilMap]
        h == MapAt(c.maps, c.ref)
        ct == HeaderGet(h, HeaderContentType)
        d0 == [Status |-> resp.Status] @@
              [EmptyDoc EXCEPT !.StatusCode = resp.StatusCode, !.CachingPolicy = cp,
                               !.ContentLength = resp.ContentLength, !.Headers = c.ref,
                               !.ContentType = IF HasMultipartPrefix(ct) THEN "" ELSE ct]
    IN [maps |-> c.maps,
        d |-> IF d0.StatusCode = StatusPartialContent /\ body # <<>>
              THEN FulfillContentBody(ParsePartialContentBody(d0, MapAt(maps, resp.Header), body))
              ELSE SetBody(d0, body)]

\* The header maps of the responses.
ResponseHeaders ==
    {(HeaderDate :> "now"),
     (HeaderDate :> "now") @@ (HeaderContentType :> "text/plain; charset=utf-8")
        @@ (HeaderTricksterResult :> "engine=ObjectProxyCache"),
     (HeaderDate :> "now") @@ (HeaderTransferEncoding :> "chunked")
        @@ (HeaderContentType :> MultipartContentType)}
    \cup {(HeaderDate :> "now") @@ (HeaderContentType :> "text/plain; charset=utf-8")
            @@ (HeaderContentRange :> cr) : cr \in ContentRanges}

\* The bodies of the responses: none, the content or a part of it, and
\* multipart bodies of one part and of all the content in two parts.
ResponseBodies ==
    {<<>>, ContentOf(Rng(0, KnownLength - 1)), ContentOf(Rng(0, 0)),
     ContentOf(Rng(KnownLength - 1, KnownLength - 1)),
     EncodeMultipart(PartsOf(<<Rng(0, 0)>>)),
     EncodeMultipart(PartsOf(<<Rng(0, 0), Rng(1, KnownLength - 1)>>))}

\* A 206 response with a body carries the Content-Range of that body, or is
\* a multipart/byteranges response whose body is made of parts.
WellFormed(code, h, body) ==
    (code = StatusPartialContent /\ body # <<>>) =>
        IF HeaderContentRange \in DOMAIN h
        THEN LET r == ParseContentRangeHeader(h[HeaderContentRange]).r
             IN body = ContentOf(r)
        ELSE /\ HasMultipartPrefix(HeaderGet(h, HeaderContentType))
             /\ ParseMultipart(body) # <<>>
             /\ EncodeMultipart(ParseMultipart(body)) = body

ResponseInput(code, cl, ref, maps, body, cp) ==
    [op |-> "input", resp |-> Response(code, cl, ref), maps |-> maps, body |-> body,
     cp |-> cp]

ResponseInit ==
    /\ cacheType = "memory"
    /\ store = [k \in Keys |-> Absent]
    /\ heap = [i \in ObjIds |-> NoObj]
    /\ written = [k \in Keys |-> Nil]
    /\ wr = NoCall
    /\ rd = NoCall
    /\ headerLock = 0
    /\ \E code \in {StatusOK, StatusPartialContent}, cl \in {-1, KnownLength},
          body \in ResponseBodies, cp \in {Nil, Policy(FALSE, TRUE)} :
          \/ ret = ResponseInput(code, cl, NilMap, <<>>, body, cp)
             /\ WellFormed(code, NoHeaders, body)
          \/ \E h \in ResponseHeaders :
                /\ WellFormed(code, h, body)
                /\ ret = ResponseInput(code, cl, 1, <<h>>, body, cp)

\* d := DocumentFromHTTPResponse(resp, body, cp, log)
FromResponse ==
    /\ ret.op = "input"
    /\ LET r == DocumentFromHTTPResponse(ret.resp, ret.body, ret.cp, ret.maps)
       IN ret' = [ret EXCEPT !.op = "document", !.maps = r.maps] @@ [d |-> r.d]
    /\ UNCHANGED <<cacheType, store, heap, written, wr, rd, headerLock>>

\* WriteCache of the document, as far as it touches the header maps: under
\* the header lock, h.Del of the four headers of d.Headers. Del on a nil map
\* does nothing.
WriteCacheHeaders ==
    /\ ret.op = "document"
    /\ ret' = [ret EXCEPT !.op = "written",
                          !.maps = IF ret.d.Headers = NilMap THEN @
                                   ELSE [@ EXCEPT ![ret.d.Headers] = ScrubHeaders(@)]]
    /\ UNCHANGED <<cacheType, store, heap, written, wr, rd, headerLock>>

ResponseNext ==
    \/ FromResponse
    \/ WriteCacheHeaders

ResponseSpec == ResponseInit /\ [][ResponseNext]_vars

\* ------------------------------------------------------- key derivation
\* The longest query string of a request, in parameters.
MaxQuery == 2

\* Every string a request or a path configuration holds, in byte order.
Collation ==
    <<"", "/", "1", "2", "Authorization", "GET", "POST", "X-Test-Header", "extra",
      "field1", "field2", "method", "missingKey", "movies", "other", "query",
      "query/options", "query/options/someArray", "query/table",
      "query/table/nottamap", "start", "test", "test-key", "test2", "value1",
      "value2">>
Rank(x) == CHOOSE i \in 1..Len(Collation) : Collation[i] = x

\* sort.Strings
RECURSIVE InsertString(_, _)
InsertString(x, s) ==
    IF s = <<>> THEN <<x>>
    ELSE IF Rank(x) <= Rank(Head(s)) THEN <<x>> \o s
    ELSE <<Head(s)>> \o InsertString(x, Tail(s))
RECURSIVE SortStrings(_)
SortStrings(s) == IF s = <<>> THEN <<>> ELSE InsertString(Head(s), SortStrings(Tail(s)))

\* The values of a name in a parsed query or form, in the order they came.
RECURSIVE ValuesOf(_, _)
ValuesOf(pairs, name) ==
    IF pairs = <<>> THEN <<>>
    ELSE (IF Head(pairs).k = name THEN <<Head(pairs).v>> ELSE <<>>)
         \o ValuesOf(Tail(pairs), name)

NamesOf(pairs) == {pairs[i].k : i \in 1..Len(pairs)}

\* The repeated values of a parameter as they follow one another in the
\* query string.
JoinUnsorted(vs) == vs

\* The repeated values of a parameter, sorted ascending and joined.
JoinValues(vs) == SortStrings(vs)

\* One input of the digest: a name and its value.
Item(n, v) == [n |-> n, v |-> v]

\* A JSON value: a scalar leaf, an object or an array.
Scalar(v) == [t |-> "scalar", v |-> v]
Object(ps) == [t |-> "object", m |-> ps]
Array == [t |-> "array"]

NotFound == "could not find key"

\* strings.Split(key, "/") on the keys a path configuration lists.
Split(key) ==
    CASE key = "" -> <<>>
      [] key = "query/table" -> <<"query", "table">>
      [] key = "query/table/nottamap" -> <<"query", "table", "nottamap">>
      [] key = "query/options" -> <<"query", "options">>
      [] key = "query/options/someArray" -> <<"query", "options", "someArray">>
      [] OTHER -> <<key>>

\* deepSearch that takes whatever the last segment names for a leaf.
RECURSIVE deepSearchAnyValue(_, _)
deepSearchAnyValue(document, path) ==
    IF path = <<>> THEN [val |-> "", err |-> NotFound]
    ELSE LET vs == ValuesOf(document.m, Head(path)) IN
         IF vs = <<>> THEN [val |-> "", err |-> NotFound]
         ELSE IF Len(path) > 1
         THEN IF vs[1].t = "object" THEN deepSearchAnyValue(vs[1], Tail(path))
              ELSE [val |-> "", err |-> NotFound]
         ELSE IF vs[1].t = "scalar" THEN [val |-> vs[1].v, err |-> NoErr]
         ELSE [val |-> "", err |-> NoErr]

\* deepSearch below the first segments of a key.
RECURSIVE deepSearchPath(_, _)
deepSearchPath(document, path) ==
    IF path = <<>> THEN [val |-> "", err |-> NotFound]
    ELSE LET vs == ValuesOf(document.m, Head(path)) IN
         IF vs = <<>> THEN [val |-> "", err |-> NotFound]
         ELSE IF Len(path) > 1
         THEN IF vs[1].t = "object" THEN deepSearchPath(vs[1], Tail(path))
              ELSE [val |-> "", err |-> NotFound]
         ELSE IF vs[1].t = "scalar" THEN [val |-> vs[1].v, err |-> NoErr]
         ELSE [val |-> "", err |-> NotFound]

\* deepSearch(document, key)
deepSearch(document, key) == deepSearchPath(document, Split(key))

ContentTypeForm == "application/x-www-form-urlencoded"
ContentTypeJSON == "application/json"
HeaderAuthorization == "Authorization"

\* The digest of a key input; no two inputs share a digest.
Checksum(input) == [md5 |-> input]

\* A request: its method, its URL (Nil, or a path and a raw query string as
\* the parameters follow one another), its headers and its body.
URL(path, query) == [Path |-> path, RawQuery |-> query]
NoBody == [kind |-> "none"]
FormBody(fields) == [kind |-> "form", fields |-> fields]
JSONBody(document) == [kind |-> "json", document |-> document]
Request(method, url, headers, body) ==
    [Method |-> method, URL |-> url, Header |-> headers, Body |-> body]

\* The path configuration's part in the key.
PathOptions(params, hdrs, fields, paths, hashers) ==
    [CacheKeyParams |-> params, CacheKeyHeaders |-> hdrs,
     CacheKeyFormFields |-> fields, CacheKeyJSONPaths |-> paths,
     KeyHasher |-> hashers]

\* A key.HasherFunc: the string it returns for a call.
HasherFunc(name, path, params, headers, body, extra) ==
    IF name = "exampleKeyHasher" THEN "test-key" ELSE "other"

\* KeyPath with the empty path for a request without URL.
KeyPathOfNothing(r) == IF r.URL = Nil THEN "" ELSE r.URL.Path

\* The path and the parameters the key is derived from.
KeyPath(r) == IF r.URL = Nil THEN "/" ELSE r.URL.Path
KeyParams(r) == IF r.URL = Nil THEN <<>> ELSE r.URL.RawQuery

Elems(q) == {q[i] : i \in 1..Len(q)}

\* ParamItems with every parameter of the request, whatever is listed.
ParamItemsAll(r, P) ==
    LET params == KeyParams(r)
    IN {Item(n, JoinValues(ValuesOf(params, n))) : n \in NamesOf(params)}

\* The selected query parameters, each with its joined values.
ParamItems(r, P) ==
    LET params == KeyParams(r)
        names == IF "*" \in Elems(P.CacheKeyParams) THEN NamesOf(params)
                 ELSE Elems(P.CacheKeyParams) \cap NamesOf(params)
    IN {Item(n, JoinValues(ValuesOf(params, n))) : n \in names}

\* HeaderItems with the listed headers only.
HeaderItemsListedOnly(r, P) ==
    LET names == Elems(P.CacheKeyHeaders) \cap DOMAIN r.Header
    IN {Item(n, <<r.Header[n]>>) : n \in names}

\* The selected headers; Authorization is always one of them when present.
HeaderItems(r, P) ==
    LET names == (Elems(P.CacheKeyHeaders) \cup {HeaderAuthorization}) \cap DOMAIN r.Header
    IN {Item(n, <<r.Header[n]>>) : n \in names}

\* The selected form fields of a form body.
FormItems(r, P) ==
    IF r.Body.kind = "form" /\ HeaderGet(r.Header, HeaderContentType) = ContentTypeForm
    THEN {Item(n, <<ValuesOf(r.Body.fields, n)[1]>>) :
            n \in Elems(P.CacheKeyFormFields) \cap NamesOf(r.Body.fields)}
    ELSE {}

\* The selected JSON paths of a JSON body that end at a scalar leaf.
JSONItems(r, P) ==
    IF r.Body.kind = "json" /\ HeaderGet(r.Header, HeaderContentType) = ContentTypeJSON
    THEN {Item(path, <<deepSearch(r.Body.document, path).val>>) :
            path \in {q \in Elems(P.CacheKeyJSONPaths) :
                        deepSearch(r.Body.document, q).err = NoErr}}
    ELSE {}

KeyItems(r, P) ==
    {Item("method", <<r.Method>>)} \cup ParamItems(r, P) \cup HeaderItems(r, P)
        \cup FormItems(r, P) \cup JSONItems(r, P)

\* sort.Strings on the digest's inputs: each one begins with its name.
RECURSIVE SortItems(_)
SortItems(S) ==
    IF S = {} THEN <<>>
    ELSE LET m == CHOOSE x \in S : \A y \in S : Rank(x.n) <= Rank(y.n)
         IN <<m>> \o SortItems(S \ {m})

\* DeriveCacheKey with the last hasher of the list instead of the first.
DeriveCacheKeyLastHasher(r, P, extra) ==
    IF P = Nil THEN Checksum([path |-> KeyPath(r), vals |-> <<>>, extra |-> extra])
    ELSE IF P.KeyHasher # <<>>
    THEN HasherFunc(P.KeyHasher[Len(P.KeyHasher)], KeyPath(r), KeyParams(r),
                    r.Header, r.Body, extra)
    ELSE Checksum([path |-> KeyPath(r), vals |-> SortItems(KeyItems(r, P)),
                   extra |-> extra])

\* DeriveCacheKey(templateURL = nil, extra) of a request under its path
\* configuration.
DeriveCacheKey(r, P, extra) ==
    IF P = Nil THEN Checksum([path |-> KeyPath(r), vals |-> <<>>, extra |-> extra])
    ELSE IF P.KeyHasher # <<>>
    THEN HasherFunc(P.KeyHasher[1], KeyPath(r), KeyParams(r), r.Header, r.Body, extra)
    ELSE Checksum([path |-> KeyPath(r), vals |-> SortItems(KeyItems(r, P)),
                   extra |-> extra])

\* ------------------------------------------- the key functions on their inputs
Pair(k, v) == [k |-> k, v |-> v]

Methods == {"GET", "POST"}
ParamNames == {"query", "start"}
ParamValues == {"1", "2"}
RECURSIVE SeqsUpTo(_, _)
SeqsUpTo(S, n) ==
    IF n = 0 THEN {<<>>}
    ELSE LET shorter == SeqsUpTo(S, n - 1)
         IN shorter \cup {Append(q, x) : q \in {t \in shorter : Len(t) = n - 1}, x \in S}
Queries == SeqsUpTo({Pair(k, v) : k \in ParamNames, v \in ParamValues}, MaxQuery)
URLs == {Nil} \cup {URL("/", q) : q \in Queries}

\* The request headers: each name is there or not, with one of its values.
HeaderChoices ==
    [Authorization |-> {"", "test", "other"},
     XTestHeader |-> {"", "test2"},
     ContentType |-> {"", ContentTypeForm, ContentTypeJSON}]
RequestHeader(a, x, ct) ==
    LET names == (IF a = "" THEN {} ELSE {HeaderAuthorization})
                   \cup (IF x = "" THEN {} ELSE {"X-Test-Header"})
                   \cup (IF ct = "" THEN {} ELSE {HeaderContentType})
    IN [n \in names |-> CASE n = HeaderAuthorization -> a
                          [] n = "X-Test-Header" -> x
                          [] OTHER -> ct]
RequestHeaders ==
    {RequestHeader(a, x, ct) : a \in HeaderChoices.Authorization,
                               x \in HeaderChoices.XTestHeader,
                               ct \in HeaderChoices.ContentType}

\* testJSONDocument, with one leaf of each kind.
JSONDocument(table) ==
    Object(<<Pair("query", Object(<<Pair("table", Scalar(table)),
                                    Pair("options", Object(<<Pair("someArray", Array)>>))>>)),
             Pair("field1", Scalar("value1"))>>)
Bodies ==
    {NoBody,
     FormBody(<<Pair("field1", "value1"), Pair("field2", "value2")>>),
     FormBody(<<Pair("field1", "value2")>>),
     JSONBody(JSONDocument("movies")),
     JSONBody(JSONDocument("other"))}
Requests ==
    {r \in {Request(m, u, h, b) : m \in Methods, u \in URLs, h \in RequestHeaders,
                                  b \in Bodies} :
        r.Method = "GET" => r.Body = NoBody}

\* The selected form fields and JSON paths: none, or those of the test
\* document.
NoFields == <<<<>>, <<>>>>
TestFields == <<<<"field1">>, <<"query/table", "query/options/someArray">>>>

Hashers == {<<"exampleKeyHasher", "otherKeyHasher">>,
            <<"otherKeyHasher", "exampleKeyHasher">>}
\* No path configuration, the configurations without key hasher, and rpath
\* with a list of key hashers.
PathConfigs ==
    {Nil}
    \cup {PathOptions(ps, hs, fp[1], fp[2], <<>>) :
            ps \in {<<>>, <<"query">>, <<"*">>},
            hs \in {<<>>, <<"X-Test-Header">>},
            fp \in {NoFields, TestFields}}
    \cup {PathOptions(<<"query">>, <<>>, TestFields[1], TestFields[2], kh) : kh \in Hashers}
Extras == {"", "extra"}

\* The keys deepSearch is asked for.
DeepKeys ==
    {"", "missingKey", "field1", "query/table", "query/table/nottamap",
     "query/options", "query/options/someArray"}

KeyInput(r, P, extra) == [op |-> "input", req |-> r, P |-> P, extra |-> extra]

KeyInit ==
    /\ cacheType = "memory"
    /\ store = [k \in Keys |-> Absent]
    /\ heap = [i \in ObjIds |-> NoObj]
    /\ written = [k \in Keys |-> Nil]
    /\ wr = NoCall
    /\ rd = NoCall
    /\ headerLock = 0
    /\ \E r \in Requests, P \in PathConfigs, extra \in Extras : ret = KeyInput(r, P, extra)

\* ck = pr.DeriveCacheKey(nil, extra)
KeyDerive ==
    /\ ret.op = "input"
    /\ ret' = [op |-> "key", req |-> ret.req, P |-> ret.P, extra |-> ret.extra,
               key |-> DeriveCacheKey(ret.req, ret.P, ret.extra)]
    /\ UNCHANGED <<cacheType, store, heap, written, wr, rd, headerLock>>

\* val, err = deepSearch(document, key) on the request's JSON document
KeyDeepSearch(key) ==
    /\ ret.op = "input"
    /\ ret.req.Body.kind = "json"
    /\ ret' = [op |-> "deep", document |-> ret.req.Body.document, key |-> key,
               out |-> deepSearch(ret.req.Body.document, key)]
    /\ UNCHANGED <<cacheType, store, heap, written, wr, rd, headerLock>>

KeyNext ==
    \/ KeyDerive
    \/ \E key \in DeepKeys : KeyDeepSearch(key)

KeySpec == KeyInit /\ [][KeyNext]_vars

\* ------------------------- the generated codec of the field definitions
\* The most field definitions one list holds.
MaxFields == 2

\* The objects of the binary encoding, as far as the codec tells them apart:
\* a map header and an array header with their sizes, a string, an integer.
\* A byte and a non-negative int have the same encoding.
MsgStr(s) == [str |-> s]
MsgInt(n) == [int |-> n]
MsgArrayHeader(n) == [arrhdr |-> n]

ErrShortBytes == "msgp: too few bytes left to read object"
ErrType == "msgp: attempted to decode an object of another type"
ErrOverflow == "msgp: value overflows the destination"

\* msgp.ReadMapHeaderBytes(bts)
ReadMapHeaderBytes(bts) ==
    IF bts = <<>> THEN [v |-> 0, bts |-> bts, err |-> ErrShortBytes]
    ELSE IF "maphdr" \notin DOMAIN Head(bts) THEN [v |-> 0, bts |-> bts, err |-> ErrType]
    ELSE [v |-> Head(bts).maphdr, bts |-> Tail(bts), err |-> NoErr]

\* msgp.ReadArrayHeaderBytes(bts)
ReadArrayHeaderBytes(bts) ==
    IF bts = <<>> THEN [v |-> 0, bts |-> bts, err |-> ErrShortBytes]
    ELSE IF "arrhdr" \notin DOMAIN Head(bts) THEN [v |-> 0, bts |-> bts, err |-> ErrType]
    ELSE [v |-> Head(bts).arrhdr, bts |-> Tail(bts), err |-> NoErr]

\* msgp.ReadStringBytes(bts), and msgp.ReadMapKeyZC(bts) of a string key
ReadStringBytes(bts) ==
    IF bts = <<>> THEN [v |-> "", bts |-> bts, err |-> ErrShortBytes]
    ELSE IF "str" \notin DOMAIN Head(bts) THEN [v |-> "", bts |-> bts, err |-> ErrType]
    ELSE [v |-> Head(bts).str, bts |-> Tail(bts), err |-> NoErr]

ReadMapKeyZC(bts) == ReadStringBytes(bts)

\* msgp.ReadIntBytes(bts)
ReadIntBytes(bts) ==
    IF bts = <<>> THEN [v |-> 0, bts |-> bts, err |-> ErrShortBytes]
    ELSE IF "int" \notin DOMAIN Head(bts) THEN [v |-> 0, bts |-> bts, err |-> ErrType]
    ELSE [v |-> Head(bts).int, bts |-> Tail(bts), err |-> NoErr]

\* msgp.ReadByteBytes(bts): an integer that fits a byte
ReadByteBytes(bts) ==
    LET r == ReadIntBytes(bts) IN
    IF r.err = NoErr /\ (r.v < 0 \/ r.v > 255)
    THEN [v |-> 0, bts |-> bts, err |-> ErrOverflow]
    ELSE r

\* n objects skipped: a header counts the objects it announces.
RECURSIVE SkipObjects(_, _)
SkipObjects(bts, n) ==
    IF n = 0 THEN [v |-> 0, bts |-> bts, err |-> NoErr]
    ELSE IF bts = <<>> THEN [v |-> 0, bts |-> bts, err |-> ErrShortBytes]
    ELSE IF "maphdr" \in DOMAIN Head(bts)
    THEN SkipObjects(Tail(bts), n - 1 + 2 * Head(bts).maphdr)
    ELSE IF "arrhdr" \in DOMAIN Head(bts)
    THEN SkipObjects(Tail(bts), n - 1 + Head(bts).arrhdr)
    ELSE SkipObjects(Tail(bts), n - 1)

\* A skip that takes a header for the whole object.
SkipShallow(bts) ==
    IF bts = <<>> THEN [v |-> 0, bts |-> bts, err |-> ErrShortBytes]
    ELSE [v |-> 0, bts |-> Tail(bts), err |-> NoErr]

\* msgp.Skip(bts): the next object, with everything it holds
Skip(bts) == SkipObjects(bts, 1)

FieldDefinition(name, type, pos, stype, provider1) ==
    [Name |-> name, DataType |-> type, OutputPosition |-> pos, SDataType |-> stype,
     ProviderData1 |-> provider1]

\* The zero value of a FieldDefinition.
ZeroFieldDefinition == FieldDefinition("", 0, 0, "", 0)

\* func (z *FieldDefinition) MarshalMsg(b []byte)
FieldDefinitionMarshalMsg(b, z) ==
    b \o <<MapHeader(5),
           MsgStr("name"), MsgStr(z.Name),
           MsgStr("type"), MsgInt(z.DataType),
           MsgStr("pos"), MsgInt(z.OutputPosition),
           MsgStr("stype"), MsgStr(z.SDataType),
           MsgStr("provider1"), MsgInt(z.ProviderData1)>>

\* for zb0001 > 0: the key, and the value by the key; an unknown key's value
\* is skipped. A failed read leaves o nil.
RECURSIVE FieldDefinitionEntries(_, _, _)
FieldDefinitionEntries(z, bts, n) ==
    IF n = 0 THEN [z |-> z, o |-> bts, err |-> NoErr]
    ELSE LET field == ReadMapKeyZC(bts) IN
         IF field.err # NoErr THEN [z |-> z, o |-> <<>>, err |-> field.err]
         ELSE LET r == CASE field.v = "name" -> ReadStringBytes(field.bts)
                         [] field.v = "type" -> ReadByteBytes(field.bts)
                         [] field.v = "pos" -> ReadIntBytes(field.bts)
                         [] field.v = "stype" -> ReadStringBytes(field.bts)
                         [] field.v = "provider1" -> ReadIntBytes(field.bts)
                         [] OTHER -> Skip(field.bts)
                  z1 == CASE field.v = "name" -> [z EXCEPT !.Name = r.v]
                          [] field.v = "type" ->
                               IF r.err = NoErr THEN [z EXCEPT !.DataType = r.v] ELSE z
                          [] field.v = "pos" -> [z EXCEPT !.OutputPosition = r.v]
                          [] field.v = "stype" -> [z EXCEPT !.SDataType = r.v]
                          [] field.v = "provider1" -> [z EXCEPT !.ProviderData1 = r.v]
                          [] OTHER -> z
              IN IF r.err # NoErr THEN [z |-> z1, o |-> <<>>, err |-> r.err]
                 ELSE FieldDefinitionEntries(z1, r.bts, n - 1)

\* func (z *FieldDefinition) UnmarshalMsg(bts []byte), z being the receiver
\* as the caller passes it
FieldDefinitionUnmarshalMsg(z, bts) ==
    LET zb0001 == ReadMapHeaderBytes(bts) IN
    IF zb0001.err # NoErr THEN [z |-> z, o |-> <<>>, err |-> zb0001.err]
    ELSE FieldDefinitionEntries(z, zb0001.bts, zb0001.v)

\* for zb0003 := range z: o, err = z[zb0003].MarshalMsg(o)
RECURSIVE MarshalElements(_, _, _)
MarshalElements(o, z, i) ==
    IF i > Len(z) THEN o
    ELSE MarshalElements(FieldDefinitionMarshalMsg(o, z[i]), z, i + 1)

\* func (z FieldDefinitions) MarshalMsg(b []byte)
FieldDefinitionsMarshalMsg(b, z) == MarshalElements(b \o <<MsgArrayHeader(Len(z))>>, z, 1)

\* The receiver cut to n elements when it has room for them (its capacity
\* taken to be its length), a new slice of n zero values otherwise.
Resize(z, n) ==
    IF Len(z) >= n THEN SubSeq(z, 1, n) ELSE [i \in 1..n |-> ZeroFieldDefinition]

\* for zb0001 := range *z: bts, err = (*z)[zb0001].UnmarshalMsg(bts)
RECURSIVE UnmarshalElements(_, _, _)
UnmarshalElements(z, bts, i) ==
    IF i > Len(z) THEN [z |-> z, o |-> bts, err |-> NoErr]
    ELSE LET r == FieldDefinitionUnmarshalMsg(z[i], bts) IN
         IF r.err # NoErr THEN [z |-> [z EXCEPT ![i] = r.z], o |-> <<>>, err |-> r.err]
         ELSE UnmarshalElements([z EXCEPT ![i] = r.z], r.o, i + 1)

\* func (z *FieldDefinitions) UnmarshalMsg(bts []byte)
FieldDefinitionsUnmarshalMsg(z, bts) ==
    LET zb0002 == ReadArrayHeaderBytes(bts) IN
    IF zb0002.err # NoErr THEN [z |-> z, o |-> <<>>, err |-> zb0002.err]
    ELSE UnmarshalElements(Resize(z, zb0002.v), zb0002.bts, 1)

\* The field definitions of the inputs: the zero value, and values that use
\* the ends of the byte, negative integers and empty strings.
FieldUniverse ==
    {ZeroFieldDefinition,
     FieldDefinition("cpu", 1, 1, "float", 7),
     FieldDefinition("", 255, -1, "float", 0),
     FieldDefinition("cpu", 0, 2, "", -7)}

FieldLists == UNION {[1..n -> FieldUniverse] : n \in 0..MaxFields}

\* What a receiver holds before the call: nothing, or what an earlier decode
\* left in it.
UsedField == FieldDefinition("mem", 9, 9, "int", 9)
Receivers(kind) ==
    IF kind = "one" THEN {ZeroFieldDefinition, UsedField} ELSE {<<>>, <<UsedField, UsedField>>}

\* Entries a later version of the encoding may add to a map: with a scalar
\* value, with a nested value that itself holds a name key, with a key that
\* differs from a known one in case only.
UnknownEntries ==
    {<<MsgStr("future"), MsgInt(7)>>,
     <<MsgStr("labels"), MapHeader(1), MsgStr("name"), MsgArrayHeader(2), MsgInt(1), MsgStr("x")>>,
     <<MsgStr("Name"), MsgStr("x")>>}

\* The encoding bts with the entry e added to its first map, after p of the
\* map's entries.
InsertUnknown(bts, kind, p, e) ==
    LET j == IF kind = "one" THEN 1 ELSE 2
        at == j + 2 * p
    IN SubSeq(bts, 1, j - 1) \o <<MapHeader(bts[j].maphdr + 1)>>
         \o SubSeq(bts, j + 1, at) \o e \o SubSeq(bts, at + 1, Len(bts))

CodecInput(kind, x, z) ==
    [op |-> "input", kind |-> kind, x |-> x, z |-> z, bts |-> <<>>, extended |-> FALSE,
     out |-> z, o |-> <<>>, err |-> NoErr]

CodecInit ==
    /\ cacheType = "memory"
    /\ store = [k \in Keys |-> Absent]
    /\ heap = [i \in ObjIds |-> NoObj]
    /\ written = [k \in Keys |-> Nil]
    /\ wr = NoCall
    /\ rd = NoCall
    /\ headerLock = 0
    /\ \/ \E x \in FieldUniverse, z \in Receivers("one") : ret = CodecInput("one", x, z)
       \/ \E x \in FieldLists, z \in Receivers("list") : ret = CodecInput("list", x, z)

\* bts, err := x.MarshalMsg(nil)
CodecMarshal ==
    /\ ret.op = "input"
    /\ ret' = [ret EXCEPT !.op = "marshalled",
                          !.bts = IF ret.kind = "one" THEN FieldDefinitionMarshalMsg(<<>>, ret.x)
                                  ELSE FieldDefinitionsMarshalMsg(<<>>, ret.x)]
    /\ UNCHANGED <<cacheType, store, heap, written, wr, rd, headerLock>>

\* A writer of a later version has put one more entry into the first map.
CodecExtend(p, e) ==
    /\ ret.op = "marshalled"
    /\ ret.kind = "list" => Len(ret.x) > 0
    /\ ret' = [ret EXCEPT !.op = "extended", !.extended = TRUE,
                          !.bts = InsertUnknown(ret.bts, ret.kind, p, e)]
    /\ UNCHANGED <<cacheType, store, heap, written, wr, rd, headerLock>>

\* o, err := z.UnmarshalMsg(bts)
CodecUnmarshal ==
    /\ ret.op \in {"marshalled", "extended"}
    /\ LET r == IF ret.kind = "one" THEN FieldDefinitionUnmarshalMsg(ret.z, ret.bts)
                ELSE FieldDefinitionsUnmarshalMsg(ret.z, ret.bts)
       IN ret' = [ret EXCEPT !.op = "decoded", !.out = r.z, !.o = r.o, !.err = r.err]
    /\ UNCHANGED <<cacheType, store, heap, written, wr, rd, headerLock>>

CodecNext ==
    \/ CodecMarshal
    \/ \E p \in 0..5, e \in UnknownEntries : CodecExtend(p, e)
    \/ CodecUnmarshal

CodecSpec == CodecInit /\ [][CodecNext]_vars

\* ------------------------------------------------------------- properties
\* A lookup has returned (without panicking) what the store answered with Hit.
QueryAnswered == ret.op = "query" /\ ~ret.panicked /\ ret.got.status = StatusHit

\* The lookup decoded a document and went on to the range lookup.
QueryDecoded == QueryAnswered /\ ret.err = NoErr /\ ret.got.val # NilRef

SamePersisted(a, b) ==
    /\ a.StatusCode = b.StatusCode
    /\ a.Headers = b.Headers
    /\ a.Body = b.Body
    /\ a.Ranges = b.Ranges
    /\ a.ContentType = b.ContentType
    /\ a.ContentLength = b.ContentLength
    /\ a.CachingPolicy = b.CachingPolicy

C2_QueryLeavesStore ==
    [][(ret.op = "none" /\ ret'.op = "query")
       => /\ store' = store
          /\ \A k \in Keys : store[k].kind = "ref"
                => heap'[store[k].ref] = heap[store[k].ref]]_vars

\* C3: with wanted and stored ranges both non-empty, the missing ranges are
\* the delta, and the status is RangeMiss when the delta equals the wanted
\* ranges, PartialHit when it is non-empty and differs, Hit when it is empty.
C3_Classification ==
    (QueryDecoded /\ Len(ret.want) > 0 /\ Len(ret.doc.Ranges) > 0)
    => LET delta == CalculateDelta(ret.want, ret.doc.Ranges, ret.doc.ContentLength) IN
         /\ ret.missing = delta
         /\ ret.status = (IF delta = <<>> THEN StatusHit
                          ELSE IF RangesEqual(delta, ret.want) THEN StatusRangeMiss
                          ELSE StatusPartialHit)

\* Two wanted ranges, none of them stored.
C3_Witness ==
    /\ QueryDecoded /\ Len(ret.want) = 2 /\ Len(ret.doc.Ranges) > 0
    /\ ret.status = StatusRangeMiss

\* The wanted ranges can be read as bytes: the length is known, or no
\* wanted range is a suffix range.
Resolvable(want, cl) == cl >= 0 \/ \A i \in 1..Len(want) : ~IsSuffix(want[i])

\* The bytes the caller wants, as far as the object has them.
WantedBytes(want, cl) == BytesOf(ResolveRanges(want, cl))

\* C4: RangeMiss exactly when none of the wanted bytes are stored, PartialHit
\* exactly when some but not all of them are.
C4_StatusMeaning ==
    (QueryDecoded /\ Len(ret.want) > 0 /\ Len(ret.doc.Ranges) > 0
       /\ Resolvable(ret.want, ret.doc.ContentLength))
    => LET wanted == WantedBytes(ret.want, ret.doc.ContentLength)
           stored == BytesOf(ret.doc.Ranges)
       IN /\ (ret.status = StatusRangeMiss) = (wanted # {} /\ wanted \cap stored = {})
          /\ (ret.status = StatusPartialHit)
               = (wanted \cap stored # {} /\ ~(wanted \subseteq stored))

\* C5: a lookup without ranges of a document that holds ranges marks the
\* document a fulfillment and returns the whole object minus what is stored.
C5_Fulfillment ==
    (QueryDecoded /\ ret.want = <<>> /\ Len(ret.doc.Ranges) > 0)
    => /\ ret.doc.isFulfillment
       /\ ret.missing = CalculateDelta(<<Rng(0, ret.doc.ContentLength - 1)>>,
                                       ret.doc.Ranges, ret.doc.ContentLength)
       /\ BytesOf(ret.missing)
            = (0..(ret.doc.ContentLength - 1)) \ BytesOf(ret.doc.Ranges)
       /\ ret.missing = Normalize(ret.missing)

\* A fulfillment with something left to fetch.
C5_Witness ==
    /\ QueryDecoded /\ ret.want = <<>> /\ Len(ret.doc.Ranges) > 0
    /\ ret.doc.isFulfillment /\ ret.missing # <<>>

\* The bytes of the wanted ranges as written: suffix ranges resolved when the
\* length is known, nothing clamped.
RawWantedBytes(want, cl) ==
    BytesOf([i \in 1..Len(want) |->
               IF IsSuffix(want[i]) THEN ResolveRange(want[i], cl) ELSE want[i]])

\* The normalized ranges of a set of bytes.
RangesOfBytes(S) == RunsFrom(0, MaxPos + 1, S)

\* C6 as stated: the missing ranges united with the stored part of the wanted
\* ranges are the wanted ranges, normalized.
C6_DeltaUnionAsStated ==
    (QueryDecoded /\ Len(ret.want) > 0 /\ Len(ret.doc.Ranges) > 0)
    => RangesOfBytes(BytesOf(ret.missing)
                       \cup (BytesOf(ret.doc.Ranges)
                               \cap RawWantedBytes(ret.want, ret.doc.ContentLength)))
         = Normalize(ret.want)

\* C6, amended: when the wanted ranges can be resolved, the missing ranges
\* united with the stored part of the wanted ranges are the wanted ranges
\* after resolving suffix ranges, clamping to the content length and
\* normalizing; the missing ranges hold no stored byte.
C6_DeltaUnion ==
    (QueryDecoded /\ Len(ret.want) > 0 /\ Len(ret.doc.Ranges) > 0
       /\ Resolvable(ret.want, ret.doc.ContentLength))
    => LET wanted == WantedBytes(ret.want, ret.doc.ContentLength)
           stored == BytesOf(ret.doc.Ranges)
       IN /\ RangesOfBytes(BytesOf(ret.missing) \cup (stored \cap wanted))
               = Normalize(ResolveRanges(ret.want, ret.doc.ContentLength))
          /\ BytesOf(ret.missing) \cap stored = {}
          /\ \A i \in 1..Len(ret.missing) : ~IsSuffix(ret.missing[i])

\* Part of what was wanted is stored, part is missing, and a wanted range
\* reached past the content.
C6_Witness ==
    /\ QueryDecoded /\ Len(ret.want) > 0 /\ Len(ret.doc.Ranges) > 0
    /\ ret.doc.ContentLength >= 0
    /\ \E i \in 1..Len(ret.want) : ret.want[i].End >= ret.doc.ContentLength
    /\ ret.missing # <<>>
    /\ BytesOf(ret.doc.Ranges) \cap WantedBytes(ret.want, ret.doc.ContentLength) # {}

\* C7: when the retrieval returns an error or a status other than Hit, the
\* lookup returns an empty document, the store's status and error, and the
\* wanted ranges as missing only for a KeyMiss with wanted ranges.
C7_MissPropagation ==
    (ret.op = "query" /\ (ret.got.err # NoErr \/ ret.got.status # StatusHit))
    => /\ ret.doc = EmptyDoc
       /\ ret.status = ret.got.status
       /\ ret.err = ret.got.err
       /\ ret.missing = (IF ret.got.status = StatusKeyMiss /\ Len(ret.want) > 0
                         THEN ret.want ELSE <<>>)
       /\ ~ret.panicked

\* The store failed a lookup that asked for ranges.
C7_Witness ==
    /\ ret.op = "query" /\ ret.got.status = StatusError /\ ret.got.err # NoErr
    /\ Len(ret.want) > 0 /\ ret.missing = <<>>

\* C8: on a memory store, a Hit whose object is nil or not a document is
\* returned as an empty document, KeyMiss, the wanted ranges, without a crash.
C8_BadReference ==
    (cacheType = "memory" /\ ret.op = "query" /\ ret.got.status = StatusHit
       /\ ret.got.val \in {NilRef, Foreign})
    => /\ ~ret.panicked
       /\ ret.doc = EmptyDoc
       /\ ret.status = StatusKeyMiss
       /\ ret.missing = ret.want

\* C9: a retrieval that fails with an I/O error is returned with status Error
\* and the error.
C9_IOError ==
    (ret.op = "query" /\ ret.got.err = ErrIO)
    => ret.status = StatusError /\ ret.err = ErrIO

\* The store failed a lookup of a key it holds.
C9_Witness ==
    /\ ret.op = "query" /\ ret.got.err = ErrIO
    /\ store[ret.key] # Absent /\ ret.status = StatusError

\* The blob the lookup got is flagged compressed and does not decompress.
FallbackCase ==
    /\ cacheType # "memory" /\ QueryAnswered
    /\ Len(ret.got.val.bytes) > 0
    /\ ret.got.val.bytes[1] = Byte(1)
    /\ SnappyDecode(Tail(ret.got.val.bytes)).err # NoErr

\* C10: when the flagged payload does not decompress, the bytes after the
\* flag are deserialized as they are; the lookup is a KeyMiss only if that
\* fails too, and otherwise goes on as a hit, without an error.
C10_DecompressFallback ==
    FallbackCase
    => LET u == UnmarshalMsg(EmptyDoc, Tail(ret.got.val.bytes)) IN
         /\ (u.err # NoErr) = (ret.status = StatusKeyMiss)
         /\ u.err # NoErr => ret.err = u.err
         /\ u.err = NoErr
              => /\ ret.status \in HitLike
                 /\ ret.err = NoErr
                 /\ SamePersisted(ret.doc, u.doc)

\* A payload flagged compressed but stored raw was read as a document.
C10_Witness ==
    /\ FallbackCase
    /\ ret.status \in HitLike
    /\ Len(ret.doc.Ranges) > 0

PayloadOf(bytes) ==
    IF bytes = <<>> THEN <<>>
    ELSE IF bytes[1] = Byte(1) /\ SnappyDecode(Tail(bytes)).err = NoErr
    THEN SnappyDecode(Tail(bytes)).bytes
    ELSE Tail(bytes)

\* The store answered a byte lookup with Hit and a blob whose payload does not
\* deserialize into a document.
CorruptCase ==
    /\ cacheType # "memory" /\ ret.op = "query" /\ ret.got.status = StatusHit
    /\ ret.got.err = NoErr
    /\ UnmarshalMsg(EmptyDoc, PayloadOf(ret.got.val.bytes)).err # NoErr

\* C12: a blob whose payload cannot be deserialized (an empty blob included)
\* is returned as KeyMiss with a non-nil error and the wanted ranges as
\* missing, never as Hit, PartialHit or RangeMiss.
C12_CorruptPayload ==
    CorruptCase
    => /\ ret.status = StatusKeyMiss
       /\ ret.status \notin HitLike
       /\ ret.err # NoErr
       /\ ret.missing = ret.want
       /\ ~ret.panicked

\* A truncated payload was looked up with wanted ranges.
C12_Witness ==
    /\ CorruptCase
    /\ Len(ret.got.val.bytes) > 1
    /\ Len(ret.want) > 0
    /\ ret.status = StatusKeyMiss

\* C13: a lookup whose wanted ranges hold a suffix range, of a document whose
\* content length is unknown, returns KeyMiss.
C13_SuffixUnknownLength ==
    (QueryDecoded /\ ret.doc.ContentLength = -1
       /\ \E i \in 1..Len(ret.want) : IsSuffix(ret.want[i]))
    => ret.status = StatusKeyMiss

\* The range parts a payload holds, whatever their content.
RECURSIVE PartsIn(_)
PartsIn(payload) ==
    IF payload = <<>> THEN <<>>
    ELSE IF "k" \in DOMAIN Head(payload) /\ Head(payload).k = "range_parts"
    THEN Head(payload).v
    ELSE PartsIn(Tail(payload))

\* The range parts of what the store holds under k: of the object a memory
\* store references, of the payload of a blob.
StoredParts(v) ==
    CASE v.kind = "ref" -> heap[v.ref].RangeParts
      [] v.kind = "bytes" -> PartsIn(PayloadOf(v.bytes))
      [] OTHER -> <<>>

\* The store answered the lookup with a document one of whose range parts
\* does not hold as many bytes as its range.
MismatchCase ==
    /\ ret.op = "query" /\ ret.got.status = StatusHit /\ ret.got.err = NoErr
    /\ \E i \in 1..Len(StoredParts(ret.got.val)) :
          LET p == StoredParts(ret.got.val)[i] IN
            Len(p.Content) # p.Range.End - p.Range.Start + 1

StoredHeaders(v) ==
    CASE v.kind = "ref" -> heap[v.ref].Headers
      [] v.kind = "bytes" -> UnmarshalMsg(EmptyDoc, PayloadOf(v.bytes)).doc.Headers
      [] OTHER -> NoHeaders

\* C15: no document the store holds, blob or referenced object, has a Date,
\* Transfer-Encoding, Content-Range or Trickster result header; a blob that
\* WriteCache wrote deserializes.
C15_HeadersScrubbed ==
    \A k \in Keys :
       /\ (DOMAIN StoredHeaders(store[k])) \cap ScrubbedHeaders = {}
       /\ (store[k].kind = "bytes" /\ written[k] # Nil)
            => UnmarshalMsg(EmptyDoc, PayloadOf(store[k].bytes)).err = NoErr

\* WriteCache has stored a document that came with a Date, a Content-Range and
\* a Content-Encoding header, and the store holds it with the last one only.
C15_Witness ==
    /\ ret.op = "write" /\ ret.err = NoErr
    /\ store[ret.key].kind \in {"ref", "bytes"}
    /\ written[ret.key] # Nil
    /\ written[ret.key].StatusCode = 206
    /\ DOMAIN StoredHeaders(store[ret.key]) = {HeaderContentEncoding}

\* WriteCache has stored a blob on a byte store and the store still holds it.
BlobWritten ==
    /\ cacheType # "memory" /\ ret.op = "write" /\ ret.err = NoErr
    /\ store[ret.key].kind = "bytes"

\* The blob is the flag 1 and the snappy-compressed serialization of d.
IsCompressedBlobOf(bytes, d) == bytes = <<Byte(1)>> \o SnappyEncode(MarshalMsg(d).bytes)

\* C16: WriteCache compresses the payload exactly when Content-Encoding is
\* empty or identity, there is no caching policy or its NoTransform is false,
\* and the content type parses to a media type (parameters dropped) that is a
\* compressible type; otherwise the payload is stored raw.
C16_CompressionDecision ==
    BlobWritten
    => LET d == ret.doc
           ce == HeaderGet(d.Headers, HeaderContentEncoding)
           eligible == /\ ce \in {"", "identity"}
                       /\ (d.CachingPolicy = Nil \/ d.CachingPolicy.NoTransform = FALSE)
                       /\ ParseMediaType(d.ContentType).err = NoErr
                       /\ ParseMediaType(d.ContentType).mt \in CompressTypes
       IN /\ IsCompressedBlobOf(store[ret.key].bytes, d) = eligible
          /\ ~eligible => store[ret.key].bytes = <<Byte(0)>> \o MarshalMsg(d).bytes

\* A document whose content type names a compressible type but does not parse
\* was stored raw.
C16_Witness ==
    /\ BlobWritten
    /\ ParseMediaType(ret.doc.ContentType).err # NoErr
    /\ ParseMediaType(ret.doc.ContentType).mt \in CompressTypes
    /\ store[ret.key].bytes[1] = Byte(0)

\* C17: a blob WriteCache stored is one flag byte and the payload: flag 1
\* exactly when the payload is the snappy-compressed serialization of the
\* document, flag 0 exactly when it is the raw serialization; and a lookup
\* decompresses the payload of exactly the blobs whose flag is 1.
C17_BlobLayout ==
    /\ BlobWritten
         => LET b == store[ret.key].bytes
                m == MarshalMsg(ret.doc).bytes
            IN /\ Len(b) >= 1
               /\ b[1] \in {Byte(0), Byte(1)}
               /\ (b[1] = Byte(1)) = (Tail(b) = SnappyEncode(m))
               /\ (b[1] = Byte(0)) = (Tail(b) = m)
    /\ (cacheType # "memory" /\ QueryAnswered /\ Len(ret.got.val.bytes) > 0)
         => LET b == ret.got.val.bytes
                z == SnappyDecode(Tail(b))
                u == UnmarshalMsg(EmptyDoc,
                                  IF b[1] = Byte(1) /\ z.err = NoErr THEN z.bytes ELSE Tail(b))
            IN /\ ret.err = u.err
               /\ (u.err = NoErr) = (ret.status \in HitLike)
               /\ u.err = NoErr => SamePersisted(ret.doc, u.doc)

\* WriteCache has stored a compressed blob of a document that holds ranges.
C17_Witness ==
    /\ BlobWritten
    /\ store[ret.key].bytes[1] = Byte(1)
    /\ SnappyDecode(Tail(store[ret.key].bytes)).err = NoErr
    /\ Len(ret.doc.Ranges) > 0

\* WriteCache was called on a memory store and the store holds the object it
\* was passed under the key.
MemWritten ==
    /\ cacheType = "memory" /\ ret.op = "write"
    /\ store[ret.key] = Ref(ret.ref)

\* Every document object the store references has its transient flags false.
CleanStored ==
    \A k \in Keys :
       store[k].kind = "ref"
       => LET o == heap[store[k].ref] IN
            ~o.isFulfillment /\ ~o.isLoaded /\ ~o.rangePartsLoaded

\* C18: on a memory store, once a document has been written (back), the
\* object the store holds has isFulfillment, isLoaded and rangePartsLoaded
\* false, and so it stays through every step up to the next QueryCache: the
\* next lookup retrieves it with the three flags false.
C18_ReferencePurity ==
    [][/\ MemWritten => CleanStored
       /\ MemWritten' => CleanStored'
       /\ (CleanStored /\ ret'.op # "query") => CleanStored'
       /\ (ret.op = "none" /\ ret'.op = "query" /\ ret'.got.val.kind = "ref")
            => ret'.got.val = store[ret'.key] /\ ret'.ref = store[ret'.key].ref]_vars

\* A document that holds ranges was read, and was written back; the store
\* holds the object with the three flags false.
C18_Witness ==
    /\ MemWritten
    /\ ret.src = "back"
    /\ Len(heap[ret.ref].Ranges) > 0
    /\ CleanStored

\* C19: WriteCache returns what the store's Store / StoreReference returned:
\* the store's error, the store being left as it was, or nil, the store
\* holding what was written under the key.
C19_WriteError ==
    [][(ret.op # "write" /\ ret'.op = "write")
       => /\ ret'.err = ret'.got.err
          /\ ret'.err \in {NoErr, ErrIO}
          /\ ret'.err # NoErr => store' = store
          /\ ret'.err = NoErr
               => store'[ret'.key]
                    = (IF cacheType = "memory" THEN Ref(ret'.ref)
                       ELSE Blob(EncodeBlob(ret'.doc, ret'.compress)))]_vars

\* Store failed on a byte store that holds an older blob under the key, and
\* WriteCache returned the error.
C19_Witness ==
    /\ cacheType # "memory" /\ ret.op = "write"
    /\ ret.got.err = ErrIO /\ ret.err = ErrIO
    /\ store[ret.key].kind = "bytes"

\* A document without the flag every lookup assigns for itself.
Seen(d) == [d EXCEPT !.isFulfillment = FALSE]

\* C20: a QueryCache that runs beside a WriteCache for the same key returns
\* the document as the store held it when the write began or as the write
\* leaves it, never a document in between.
C20_AtomicVisibility ==
    (rd.pc = "returned" /\ rd.status \in HitLike)
    => Seen(rd.doc) \in {Seen(wr.pre), Seen(wr.post)}

\* The field of its document the WriteCache call assigns with its next
\* statement, outside the header lock.
WrWrites ==
    IF wr.pc = "reset"
    THEN {<<"rangePartsLoaded", "isFulfillment", "isLoaded", "RangeParts", "CachingPolicy">>[wr.n]}
    ELSE {}

\* The field of the retrieved object the QueryCache call assigns next.
RdWrites ==
    IF rd.pc = "got" /\ rd.got.status = StatusHit /\ rd.got.val.kind = "ref"
    THEN {"isFulfillment"}
    ELSE {}

\* C21: on a memory store, a WriteCache and a QueryCache that run side by side
\* on the same document object are never both about to assign the same field
\* of it without a lock.
C21_NoUnsynchronizedWrite ==
    (cacheType = "memory" /\ rd.pc = "got" /\ rd.got.val = Ref(wr.id))
    => WrWrites \cap RdWrites = {}

\* C22: once the context of a running call is cancelled, a WriteCache that
\* has not yet called the store does not call it, and a QueryCache returns no
\* document.
C22_Cancellation ==
    [][/\ (wr.cancelled /\ wr.pc = "store") => wr'.pc = "store"
       /\ (rd.cancelled /\ rd.pc = "got" /\ rd'.pc = "returned")
            => rd'.doc = EmptyDoc /\ rd'.status \notin HitLike]_vars

\* The document the store holds under a key that WriteCache wrote.
StoredDocument(v) ==
    IF v.kind = "ref" THEN heap[v.ref]
    ELSE UnmarshalMsg(EmptyDoc, PayloadOf(v.bytes)).doc

\* The two content forms of a document.
FullForm(d) == d.Body # <<>>
RangeForm(d) ==
    /\ Len(d.Ranges) > 0
    /\ [i \in 1..Len(d.RangeParts) |-> d.RangeParts[i].Range] = d.Ranges

\* C23: every document the store holds after WriteCache has exactly one
\* content form: a full body, or non-empty ranges with range parts whose
\* ranges are those ranges.
C23_AtRestForm ==
    \A k \in Keys :
       (store[k].kind = "ref" \/ (store[k].kind = "bytes" /\ written[k] # Nil))
       => LET d == StoredDocument(store[k]) IN FullForm(d) # RangeForm(d)


\* What each hasher of the inputs returns.
HasherReturns(name) == IF name = "exampleKeyHasher" THEN "test-key" ELSE "other"

\* C24: when the path configuration lists a key hasher, the key of every
\* request, whatever its method, body, content type or URL, is exactly the
\* string the first hasher returns.
C24_HasherOverride ==
    (ret.op = "key" /\ ret.P # Nil /\ ret.P.KeyHasher # <<>>)
        => ret.key = HasherReturns(ret.P.KeyHasher[1])

C24_Witness ==
    /\ ret.op = "key"
    /\ ret.P # Nil
    /\ ret.P.KeyHasher = <<"exampleKeyHasher", "otherKeyHasher">>
    /\ ret.req.URL = Nil
    /\ ret.req.Method = "POST"
    /\ ret.req.Body.kind = "json"
    /\ HeaderAuthorization \in DOMAIN ret.req.Header
    /\ ret.key = "test-key"


\* Every order the elements of a sequence can come in.
Reorderings(q) ==
    {[i \in 1..Len(q) |-> q[f[i]]] :
        f \in {g \in [1..Len(q) -> 1..Len(q)] : \A i, j \in 1..Len(q) : g[i] = g[j] => i = j}}

\* A JSON value with the keys of each of its objects in the opposite order.
RECURSIVE ReverseKeys(_)
ReverseKeys(v) ==
    IF v.t # "object" THEN v
    ELSE Object([i \in 1..Len(v.m) |->
                   Pair(v.m[Len(v.m) + 1 - i].k, ReverseKeys(v.m[Len(v.m) + 1 - i].v))])

ReorderedBodies(b) ==
    CASE b.kind = "form" -> {FormBody(f) : f \in Reorderings(b.fields)}
      [] b.kind = "json" -> {b, JSONBody(ReverseKeys(b.document))}
      [] OTHER -> {b}

\* The requests that differ from r only in the order of the query parameters,
\* the form fields or the keys of the JSON objects; headers are a map and have
\* no order.
Reordered(r) ==
    {Request(r.Method, u, r.Header, b) :
        u \in (IF r.URL = Nil THEN {Nil}
               ELSE {URL(r.URL.Path, q) : q \in Reorderings(r.URL.RawQuery)}),
        b \in ReorderedBodies(r.Body)}

WithHeader(r, n, v) ==
    [r EXCEPT !.Header =
        IF v = "" THEN HeaderDel(@, n)
        ELSE [m \in (DOMAIN @) \cup {n} |-> IF m = n THEN v ELSE @[m]]]

\* The default derivation applies: a path configuration without key hasher.
DefaultKey == ret.op = "key" /\ ret.P # Nil /\ ret.P.KeyHasher = <<>>

\* Another value of the Authorization header, or its absence, changes the key.
AuthorizationEnters ==
    \A a \in HeaderChoices.Authorization :
        a # HeaderGet(ret.req.Header, HeaderAuthorization)
            => DeriveCacheKey(WithHeader(ret.req, HeaderAuthorization, a), ret.P, ret.extra)
                 # ret.key

\* A change to header n leaves the key as it is.
HeaderIgnored(n, values) ==
    \A v \in values :
        DeriveCacheKey(WithHeader(ret.req, n, v), ret.P, ret.extra) = ret.key

Unlisted(n) == n \notin Elems(ret.P.CacheKeyHeaders)

\* C26 as stated: Authorization always changes the key, and a change to any
\* other header that is not listed, Content-Type included, leaves the key
\* unchanged.
C26_AuthorizationAsStated ==
    DefaultKey =>
        /\ AuthorizationEnters
        /\ Unlisted("X-Test-Header") => HeaderIgnored("X-Test-Header", HeaderChoices.XTestHeader)
        /\ Unlisted(HeaderContentType) => HeaderIgnored(HeaderContentType, HeaderChoices.ContentType)

\* C26: under a path configuration without key hasher, another value of the
\* Authorization header, or its absence, changes the key although
\* Authorization is not listed in CacheKeyHeaders; a change to another
\* unlisted header leaves the key unchanged, Content-Type too on a request
\* without body.
C26_Authorization ==
    DefaultKey =>
        /\ AuthorizationEnters
        /\ Unlisted("X-Test-Header") => HeaderIgnored("X-Test-Header", HeaderChoices.XTestHeader)
        /\ (Unlisted(HeaderContentType) /\ ret.req.Body = NoBody)
             => HeaderIgnored(HeaderContentType, HeaderChoices.ContentType)

C26_Witness ==
    /\ DefaultKey
    /\ HeaderAuthorization \notin Elems(ret.P.CacheKeyHeaders)
    /\ Unlisted("X-Test-Header")
    /\ HeaderGet(ret.req.Header, HeaderAuthorization) = "test"
    /\ HeaderGet(ret.req.Header, "X-Test-Header") = "test2"
    /\ \E i \in 1..Len(ret.key.md5.vals) :
          ret.key.md5.vals[i] = Item(HeaderAuthorization, <<"test">>)
    /\ \A i \in 1..Len(ret.key.md5.vals) : ret.key.md5.vals[i].n # "X-Test-Header"


\* The request with the value of its i-th query parameter set to v.
WithParamValue(r, i, v) == [r EXCEPT !.URL.RawQuery[i].v = v]

\* C27: under a list of parameter names without "*", another value of a
\* parameter outside the list leaves the key unchanged; under ["*"] every
\* parameter of the request is among the digest's inputs with its value, and
\* another value of any parameter changes the key.
C27_SelectedParams ==
    (DefaultKey /\ ret.req.URL # Nil) =>
        LET q == ret.req.URL.RawQuery
            listed == Elems(ret.P.CacheKeyParams)
        IN /\ "*" \notin listed =>
                \A i \in 1..Len(q), v \in ParamValues :
                    q[i].k \notin listed
                        => DeriveCacheKey(WithParamValue(ret.req, i, v), ret.P, ret.extra)
                             = ret.key
           /\ ret.P.CacheKeyParams = <<"*">> =>
                \A i \in 1..Len(q) :
                    /\ \E j \in 1..Len(ret.key.md5.vals) :
                          /\ ret.key.md5.vals[j].n = q[i].k
                          /\ q[i].v \in Elems(ret.key.md5.vals[j].v)
                    /\ \A v \in ParamValues \ {q[i].v} :
                          DeriveCacheKey(WithParamValue(ret.req, i, v), ret.P, ret.extra)
                             # ret.key

C27_Witness ==
    /\ DefaultKey
    /\ ret.P.CacheKeyParams = <<"query">>
    /\ ret.req.URL # Nil
    /\ ret.req.URL.RawQuery = <<Pair("query", "1"), Pair("start", "2")>>
    /\ \E j \in 1..Len(ret.key.md5.vals) : ret.key.md5.vals[j] = Item("query", <<"1">>)
    /\ \A j \in 1..Len(ret.key.md5.vals) : ret.key.md5.vals[j].n # "start"


\* C28: a request without URL has a key, the one of the same request with the
\* path "/" and no query parameter: under the default derivation the digest's
\* path is "/" and no parameter is among its inputs.
C28_NilURL ==
    (ret.op = "key" /\ ret.req.URL = Nil) =>
        /\ ret.key = DeriveCacheKey([ret.req EXCEPT !.URL = URL("/", <<>>)], ret.P, ret.extra)
        /\ DefaultKey =>
              /\ ret.key.md5.path = "/"
              /\ \A j \in 1..Len(ret.key.md5.vals) : ret.key.md5.vals[j].n \notin ParamNames

C28_Witness ==
    /\ DefaultKey
    /\ ret.req.URL = Nil
    /\ ret.req.Method = "POST"
    /\ ret.req.Body.kind = "json"
    /\ ret.P.CacheKeyParams = <<"*">>
    /\ ret.key.md5.path = "/"
    /\ ret.key.md5.vals[1] = Item("method", <<"POST">>)


\* The scalar leaves of a JSON value, each with the segments that lead to it.
RECURSIVE Leaves(_, _)
Leaves(v, prefix) ==
    CASE v.t = "scalar" -> {[path |-> prefix, val |-> v.v]}
      [] v.t = "object" ->
            UNION {Leaves(v.m[i].v, Append(prefix, v.m[i].k)) : i \in 1..Len(v.m)}
      [] OTHER -> {}

\* C29: deepSearch returns the value at a key exactly when the key's segments
\* lead through objects to a scalar leaf, and that leaf's value; for the
\* empty key, an absent key, a key that continues below a scalar and a key
\* that ends at an array or an object it returns the not-found error.
C29_DeepSearch ==
    ret.op = "deep" =>
        LET at == {l \in Leaves(ret.document, <<>>) : l.path = Split(ret.key)}
        IN /\ at = {} => ret.out.err = NotFound
           /\ \A l \in at : Split(ret.key) # <<>> /\ ret.out = [val |-> l.val, err |-> NoErr]
           /\ ret.key \in {"", "missingKey", "query/table/nottamap", "query/options",
                           "query/options/someArray"} => ret.out.err = NotFound
           /\ ret.key \in {"field1", "query/table"} => ret.out.err = NoErr

C29_Witness ==
    /\ ret.op = "deep"
    /\ ret.key = "query/table"
    /\ ret.out = [val |-> "movies", err |-> NoErr]


\* The statements of WriteCache between Lock and Unlock.
InHeaders(c) == wr[c].pc \in {"del", "get", "unlock"}

\* C30: a WriteCache call deletes the four headers and reads Content-Encoding
\* only while it holds the document's header lock; it no longer holds the lock
\* when it calls the store or has returned; two calls on the same document
\* are never both between Lock and Unlock; and while a call has not returned,
\* some call can take its next step.
C30_HeaderLock ==
    /\ \A c \in Callers : InHeaders(c) => headerLock = c
    /\ \A c \in Callers : wr[c].pc \in {"store", "returned"} => headerLock # c
    /\ \A c, e \in Callers : (InHeaders(c) /\ InHeaders(e)) => c = e
    /\ (\E c \in Callers : wr[c].pc # "returned")
         => \E c \in Callers : \/ wr[c].pc \in {"del", "get", "unlock", "store"}
                               \/ wr[c].pc = "ready" /\ headerLock = 0

C30_Witness ==
    /\ wr[1].pc = "store"
    /\ wr[2].pc = "del"
    /\ wr[2].n = 2
    /\ headerLock = 2
    /\ HeaderDate \notin DOMAIN heap[1].Headers


\* C31: on a memory store, when WriteCache is about to call StoreReference,
\* the document it passes has rangePartsLoaded, isFulfillment and isLoaded
\* false, no RangeParts, and a caching policy, if any, with its client
\* conditionals reset.
C31_PreparedForReference ==
    (cacheType = "memory" /\ wr.pc = "store") =>
        LET d == heap[wr.id] IN
        /\ ~d.rangePartsLoaded
        /\ ~d.isFulfillment
        /\ ~d.isLoaded
        /\ d.RangeParts = <<>>
        /\ d.CachingPolicy # Nil => ~d.CachingPolicy.IsClientConditional


\* C32: a QueryCache call makes exactly one retrieval call, RetrieveReference
\* on a memory store and Retrieve on any other, and a WriteCache call makes
\* at most one write call, StoreReference on a memory store and Store on any
\* other, each for the key of the call, also when the store fails.
C32_OneStoreCall ==
    /\ ret.op = "query" =>
          /\ Len(ret.calls) = 1
          /\ ret.calls[1].key = ret.key
          /\ ret.calls[1].fn = "RetrieveReference" <=> cacheType = "memory"
          /\ ret.calls[1].fn = "Retrieve" <=> cacheType # "memory"
    /\ ret.op = "write" =>
          /\ Len(ret.calls) <= 1
          /\ \A i \in 1..Len(ret.calls) :
                /\ ret.calls[i].key = ret.key
                /\ ret.calls[i].fn = "StoreReference" <=> cacheType = "memory"
                /\ ret.calls[i].fn = "Store" <=> cacheType # "memory"

C32_Witness ==
    /\ ret.op = "query"
    /\ cacheType = "memory"
    /\ ret.got.err = ErrIO
    /\ ret.calls = <<[fn |-> "RetrieveReference", key |-> ret.key]>>


\* The document holds the content of the response as range parts, or as the
\* body these parts make up when they are the whole content.
BuiltFromParts(d) ==
    \/ /\ d.RangeParts # <<>>
       /\ d.Ranges = [i \in 1..Len(d.RangeParts) |-> d.RangeParts[i].Range]
       /\ \A i \in 1..Len(d.RangeParts) :
             d.RangeParts[i].Content = ContentOf(d.RangeParts[i].Range)
       /\ d.Body = <<>>
    \/ /\ d.RangeParts = <<>>
       /\ d.Ranges = <<>>
       /\ d.Body = ContentOf(Rng(0, d.ContentLength - 1))

C34_HeaderIsolation ==
    [][ret.resp.Header # NilMap =>
          /\ ret'.maps[ret.resp.Header] = ret.maps[ret.resp.Header]
          /\ ret'.op = "document" =>
                /\ ret'.d.Headers # ret.resp.Header
                /\ ret'.maps[ret'.d.Headers] = ret.maps[ret.resp.Header]]_vars

C34_Witness ==
    /\ ret.op = "written"
    /\ ret.resp.Header # NilMap
    /\ ret.d.Headers # NilMap
    /\ DOMAIN ret.maps[ret.resp.Header] = {HeaderDate, HeaderContentType, HeaderContentRange}
    /\ DOMAIN ret.maps[ret.d.Headers] = {HeaderContentType}

\* C35: when d.MarshalMsg fails in WriteCache on a byte store, the call to
\* Store that follows leaves the store as it was (no blob is written, an
\* entry the store held stays) and WriteCache returns the failure.
C35_MarshalFailure ==
    [][(cacheType # "memory" /\ wr.pc = "store" /\ wr.merr # NoErr /\ wr'.pc = "done")
       => /\ store' = store
          /\ wr'.err = wr.merr]_vars

\* A range is well formed: 0 <= start <= end, or a suffix range (start -1).
RangeWellFormed(r) == (0 <= r.Start /\ r.Start <= r.End) \/ r.Start = -1

\* The ranges a lookup went on with: the whole-object range when the lookup
\* is a fulfillment, the caller's ranges otherwise.
UsedRanges == IF ret.doc.isFulfillment THEN FulfillmentRanges(ret.doc) ELSE ret.want

\* C36: every range a lookup uses as a wanted range, the whole-object range of
\* a fulfillment included, and every range it returns as missing is well
\* formed, whatever the content length of the stored document.
C36_WellFormedRanges ==
    QueryDecoded
    => /\ \A i \in 1..Len(UsedRanges) : RangeWellFormed(UsedRanges[i])
       /\ \A i \in 1..Len(ret.missing) : RangeWellFormed(ret.missing[i])

\* C37: FieldDefinition.UnmarshalMsg and FieldDefinitions.UnmarshalMsg of what
\* MarshalMsg returned yield the value marshalled, with no error and no bytes
\* left, whatever the receiver held; and so they do when the first map holds
\* one more entry under an unknown key: the entry is skipped and the known
\* keys are decoded as without it.
C37_ForwardCompatible ==
    ret.op = "decoded"
    => /\ ret.err = NoErr
       /\ ret.o = <<>>
       /\ ret.out = ret.x

\* A list of two field definitions was decoded into a receiver that held
\* others, from an encoding whose first map holds an unknown entry with a
\* nested value.
C37_Witness ==
    /\ ret.op = "decoded" /\ ret.extended /\ ret.kind = "list"
    /\ Len(ret.x) = 2 /\ ret.x[1] # ret.x[2]
    /\ ret.z # <<>>
    /\ \E i \in 1..Len(ret.bts) : "str" \in DOMAIN ret.bts[i] /\ ret.bts[i].str = "labels"
    /\ ret.bts[2] = MapHeader(6)
    /\ ret.out = ret.x

=============================================================================
